---- MODULE Spec2Model ----
(***************************************************************************)
(* Storage driver of libvirt 1.2.7 (src/storage/storage_driver.c) with the *)
(* SCSI backend (storage_backend_scsi.c): pool store, pool and volume      *)
(* lifecycle, the lock-dropping volume build, and the backing-chain walk.  *)
(*                                                                         *)
(* An API call that keeps its pool lock from lookup to return is one       *)
(* action.  storageVolCreateXML and storageVolCreateXMLFrom are two        *)
(* actions each: up to the unlock before the backend build, and from the   *)
(* relock to the return; the thread between the two is a record in `jobs'. *)
(* Every backend call takes its result from an input of the action.  The   *)
(* access-control hooks (vir...EnsureACL) are taken to allow the caller.   *)
(* Pool and volume objects carry the identity of their allocation: a pool  *)
(* is the slot it occupies in `pools', a volume has an `id'.               *)
(***************************************************************************)
EXTENDS Integers, Sequences, FiniteSets, TLC

VARIABLES
    pools,      \* driver->pools: slot -> pool object, or NoPool
    jobs,       \* threads inside backend->buildVol / buildVolFrom, no lock held
    res,        \* what the last returned API call reported
    chain,      \* state of the backing-chain walk (virStorageFileGetMetadata)
    driverLock, \* driver->lock: the thread that holds it, 0 when free
    objLock,    \* pool object -> the thread that holds its lock, 0 when free
    thr         \* thread -> the API call it is in and what is left of it

lockvars == <<driverLock, objLock, thr>>
vars == <<pools, jobs, res, chain, driverLock, objLock, thr>>

(***************************************************************************)
(* Bounds                                                                  *)
(***************************************************************************)
MaxPools == 2           \* pool objects alive at once
MaxVols == 2            \* volumes in one pool
MaxJobs == 1            \* builds in flight at once
UllMod == 8             \* unsigned long long arithmetic is taken modulo this
MaxCap == 3             \* largest capacity given in a volume definition

Slots == 1..MaxPools
NoPool == [name |-> "none"]
NoDef == [name |-> "none"]

\* unsigned long long arithmetic
UAdd(a, b) == (a + b) % UllMod
USub(a, b) == (a - b + UllMod) % UllMod

(***************************************************************************)
(* Backend registry: pool type -> table of optional functions.             *)
(***************************************************************************)
virStorageBackendSCSI ==
    {"checkPool", "refreshPool", "startPool", "stopPool",
     "uploadVol", "downloadVol", "wipeVol"}

\* a backend that fills every slot of the table
virStorageBackendFileSystem ==
    {"checkPool", "startPool", "buildPool", "refreshPool", "stopPool",
     "deletePool", "findPoolSources", "buildVol", "buildVolFrom", "createVol",
     "refreshVol", "deleteVol", "resizeVol", "uploadVol", "downloadVol",
     "wipeVol"}

\* a backend whose createVol does all the work: no buildVol, no start/stop
virStorageBackendDisk ==
    {"checkPool", "refreshPool", "buildPool", "deletePool", "createVol",
     "buildVolFrom", "deleteVol", "uploadVol", "downloadVol", "wipeVol"}

virStorageBackendForType(type) ==
    CASE type = "scsi" -> virStorageBackendSCSI
      [] type = "fs"   -> virStorageBackendFileSystem
      [] type = "disk" -> virStorageBackendDisk

Has(type, fn) == fn \in virStorageBackendForType(type)

(***************************************************************************)
(* Pool store (virStoragePoolObjList)                                      *)
(***************************************************************************)
Live == {s \in Slots : pools[s] # NoPool}

virStoragePoolObjFindByUUID(uuid) ==
    LET m == {s \in Live : pools[s].uuid = uuid}
    IN IF m = {} THEN 0 ELSE CHOOSE s \in m : \A t \in m : s <= t

virStoragePoolObjFindByName(name) ==
    LET m == {s \in Live : pools[s].name = name}
    IN IF m = {} THEN 0 ELSE CHOOSE s \in m : \A t \in m : s <= t

virStoragePoolObjIsActive(s) == pools[s].active

\* "OK" when def may be inserted or may replace the pool of its name
virStoragePoolObjIsDuplicate(def, check_active) ==
    LET u == virStoragePoolObjFindByUUID(def.uuid)
    IN IF u # 0
       THEN IF pools[u].name # def.name THEN "OPERATION_FAILED"
            ELSE IF check_active /\ pools[u].active THEN "OPERATION_INVALID"
            ELSE "OK"
       ELSE IF virStoragePoolObjFindByName(def.name) # 0
            THEN "OPERATION_FAILED"
            ELSE "OK"

\* a pool of another name and the same type already uses def's source
virStoragePoolSourceFindDuplicate(def) ==
    \E s \in Live : /\ pools[s].name # def.name
                    /\ pools[s].type = def.type
                    /\ pools[s].source = def.source

NewPoolObj(def) ==
    [name |-> def.name, uuid |-> def.uuid, type |-> def.type,
     source |-> def.source,
     active |-> FALSE, persistent |-> FALSE, asyncjobs |-> 0,
     autostart |-> FALSE, newDef |-> NoDef,
     capacity |-> 0, allocation |-> 0, available |-> 0,
     volumes |-> <<>>]

\* an object a building thread still points to keeps its address
FreeSlots == Slots \ (Live \cup UNION {{j.pool, j.origpool} : j \in jobs})

\* slot the definition ends up in: the pool of that name, else a new object
AssignSlot(def) ==
    LET s == virStoragePoolObjFindByName(def.name)
    IN IF s # 0 THEN s ELSE CHOOSE f \in FreeSlots : \A g \in FreeSlots : f <= g

\* the store after virStoragePoolObjAssignDef(&driver->pools, def)
virStoragePoolObjAssignDef(def) ==
    LET s == virStoragePoolObjFindByName(def.name)
    IN IF s # 0
       THEN IF ~pools[s].active
            THEN [pools EXCEPT ![s].name = def.name, ![s].uuid = def.uuid,
                               ![s].type = def.type, ![s].source = def.source,
                               ![s].capacity = 0, ![s].allocation = 0,
                               ![s].available = 0]
            ELSE [pools EXCEPT ![s].newDef = def]
       ELSE [pools EXCEPT ![AssignSlot(def)] = NewPoolObj(def)]

virStoragePoolObjRemove(ps, s) == [ps EXCEPT ![s] = NoPool]

virStoragePoolObjClearVols(ps, s) == [ps EXCEPT ![s].volumes = <<>>]

\* out, n: the names and the count a listing hands back
NoRes == [op |-> "", pool |-> "", vol |-> "", err |-> "", calls |-> <<>>,
          out |-> <<>>, n |-> 0]

\* a call returns: its name, its handle, the error it reported ("OK" when
\* it succeeded) and the backend functions it invoked, in order
Ret(op, pool, vol, err, calls) ==
    /\ res = NoRes
    /\ res' = [NoRes EXCEPT !.op = op, !.pool = pool, !.vol = vol,
                            !.err = err, !.calls = calls]

\* a call that goes on in another step reports nothing yet
NoRet == res = NoRes /\ res' = res


(***************************************************************************)
(* Inputs                                                                  *)
(***************************************************************************)
PoolDef(n, u, t, src) == [name |-> n, uuid |-> u, type |-> t, source |-> src]

\* pool definitions a caller may submit (virStoragePoolDefParseString)
PoolDefs ==
    {PoolDef("p1", "u1", "fs", "a"),
     PoolDef("p2", "u2", "scsi", "b"),
     PoolDef("p1", "u2", "fs", "c"),
     PoolDef("p2", "u1", "fs", "a"),
     PoolDef("p1", "u1", "fs", "d")}

UUIDs == {d.uuid : d \in PoolDefs}
PoolNames == {d.name : d \in PoolDefs}
VolNames == {"v1", "v2"}

VolDesc(n, c, a) == [name |-> n, capacity |-> c, allocation |-> a]

\* what a scan of the backing storage may find
Discoveries == {<<>>, <<VolDesc("v1", 2, 1)>>}

FsCapacity == 4         \* size the file-system backend reports for a pool

(***************************************************************************)
(* Volume objects                                                          *)
(***************************************************************************)
RECURSIVE SeqToSet(_)
SeqToSet(s) == IF s = <<>> THEN {} ELSE {Head(s)} \cup SeqToSet(Tail(s))

VolIdsOf(ps) == UNION {{v.id : v \in SeqToSet(ps[s].volumes)} :
                          s \in {t \in Slots : ps[t] # NoPool}}

JobIds == UNION {{j.vol, j.origvol} : j \in jobs}

\* address of a fresh allocation: not that of a live volume, nor one a
\* thread still points to
NewId(ps) ==
    LET used == VolIdsOf(ps) \cup JobIds
    IN CHOOSE i \in 1..(Cardinality(used) + 1) : i \notin used

NewVol(id, d) ==
    [id |-> id, name |-> d.name, capacity |-> d.capacity,
     allocation |-> d.allocation, in_use |-> 0, building |-> FALSE]

\* index of the first volume of that name in pool s, 0 when there is none
virStorageVolDefFindByName(ps, s, name) ==
    LET m == {i \in 1..Len(ps[s].volumes) : ps[s].volumes[i].name = name}
    IN IF m = {} THEN 0 ELSE CHOOSE i \in m : \A k \in m : i <= k

\* index of the volume object id in pool s, 0 when it is not in the list
VolIndexOf(ps, s, id) ==
    LET m == {i \in 1..Len(ps[s].volumes) : ps[s].volumes[i].id = id}
    IN IF m = {} THEN 0 ELSE CHOOSE i \in m : \A k \in m : i <= k

RemoveAt(seq, i) == SubSeq(seq, 1, i - 1) \o SubSeq(seq, i + 1, Len(seq))

(***************************************************************************)
(* backend->refreshPool                                                    *)
(***************************************************************************)
\* what goes wrong with a logical unit, "none" when nothing is said of it
LuFault(d) == IF "fault" \in DOMAIN d THEN d.fault ELSE "none"

\* its device type, a disk when nothing is said of it
LuType(d) == IF "type" \in DOMAIN d THEN d.type ELSE "disk"

\* virStorageBackendSCSINewLun: the sizes of the volume are added to the
\* pool, then the volume is appended; "newlun" is a failure before the
\* sizes are added (stable path, volume info, serial), "append" the failure
\* of VIR_APPEND_ELEMENT after it
virStorageBackendSCSINewLun(ps, s, d) ==
    IF LuFault(d) = "newlun" THEN ps
    ELSE IF LuFault(d) = "append"
    THEN [ps EXCEPT ![s].capacity = UAdd(@, d.capacity),
                    ![s].allocation = UAdd(@, d.allocation)]
    ELSE [ps EXCEPT ![s].capacity = UAdd(@, d.capacity),
                    ![s].allocation = UAdd(@, d.allocation),
                    ![s].volumes = Append(@, NewVol(NewId(ps), d))]

\* processLU: only disks and CD-ROMs become volumes; a unit whose type or
\* block device cannot be found is passed over
processLU(ps, s, d) ==
    IF LuFault(d) = "devtype" THEN ps
    ELSE IF LuType(d) \notin {"disk", "rom"} THEN ps
    ELSE IF LuFault(d) = "blockdev" THEN ps
    ELSE virStorageBackendSCSINewLun(ps, s, d)

\* the result of processLU is not looked at
RECURSIVE virStorageBackendSCSIFindLUs(_, _, _)
virStorageBackendSCSIFindLUs(ps, s, found) ==
    IF found = <<>> THEN ps
    ELSE virStorageBackendSCSIFindLUs(
             processLU(ps, s, Head(found)), s, Tail(found))

\* the accounting is zeroed first, also when the scan then fails
virStorageBackendSCSIRefreshPool(ps, s, ok, found) ==
    LET z == [ps EXCEPT ![s].capacity = 0, ![s].allocation = 0,
                        ![s].available = 0]
    IN IF ok THEN virStorageBackendSCSIFindLUs(z, s, found) ELSE z

RECURSIVE AppendVols(_, _, _)
AppendVols(ps, s, found) ==
    IF found = <<>> THEN ps
    ELSE AppendVols([ps EXCEPT ![s].volumes =
                                   Append(@, NewVol(NewId(ps), Head(found)))],
                    s, Tail(found))

RECURSIVE SumAlloc(_)
SumAlloc(found) ==
    IF found = <<>> THEN 0
    ELSE UAdd(Head(found).allocation, SumAlloc(Tail(found)))

\* a file-system like backend: sizes as the file system reports them
virStorageBackendFileSystemRefresh(ps, s, ok, found) ==
    IF ok
    THEN AppendVols([ps EXCEPT ![s].capacity = FsCapacity,
                               ![s].allocation = SumAlloc(found),
                               ![s].available = USub(FsCapacity, SumAlloc(found))],
                    s, found)
    ELSE ps

refreshPool(ps, s, ok, found) ==
    IF ps[s].type = "scsi"
    THEN virStorageBackendSCSIRefreshPool(ps, s, ok, found)
    ELSE virStorageBackendFileSystemRefresh(ps, s, ok, found)


(***************************************************************************)
(* Pool lifecycle                                                          *)
(***************************************************************************)
Frame == UNCHANGED <<jobs, chain, lockvars>>
\* a call returns without having changed anything
FailLosingVolumes(op, pool, vol, err, calls) ==
    /\ Ret(op, pool, vol, err, calls)
    /\ pools' = [s \in Slots |->
                    IF pools[s] = NoPool THEN NoPool
                    ELSE [pools[s] EXCEPT !.volumes = <<>>]]
    /\ UNCHANGED <<jobs, chain, lockvars>>

Fail(op, pool, vol, err, calls) ==
    Ret(op, pool, vol, err, calls) /\ UNCHANGED <<pools, jobs, chain, lockvars>>

\* room for AssignDef: the name is known already, or an object can be made
CanAssign(def) == virStoragePoolObjFindByName(def.name) # 0 \/ FreeSlots # {}

storagePoolCreateXMLCheck(def) ==
    LET dup == virStoragePoolObjIsDuplicate(def, TRUE)
    IN IF dup # "OK" THEN dup
       ELSE IF virStoragePoolSourceFindDuplicate(def) THEN "OPERATION_FAILED"
       ELSE "OK"

storagePoolCreateXML(def, startOk, refreshOk, found) ==
    /\ res = NoRes
    /\ LET err == storagePoolCreateXMLCheck(def)
           op == "storagePoolCreateXML"
       IN IF err # "OK" THEN Fail(op, def.uuid, "", err, <<>>)
          ELSE /\ CanAssign(def)
               /\ Frame
               /\ LET s == AssignSlot(def)
                      ps == virStoragePoolObjAssignDef(def)
                      c1 == IF Has(def.type, "startPool") THEN <<"startPool">>
                            ELSE <<>>
                      c3 == IF Has(def.type, "stopPool") THEN <<"stopPool">>
                            ELSE <<>>
                  IN IF Has(def.type, "startPool") /\ ~startOk
                     THEN /\ pools' = virStoragePoolObjRemove(ps, s)
                          /\ Ret(op, def.uuid, "", "BACKEND", c1)
                     ELSE IF ~refreshOk
                     THEN /\ pools' = virStoragePoolObjRemove(
                                          refreshPool(ps, s, FALSE, found), s)
                          /\ Ret(op, def.uuid, "", "BACKEND",
                                 c1 \o <<"refreshPool">> \o c3)
                     ELSE /\ pools' = [refreshPool(ps, s, TRUE, found)
                                           EXCEPT ![s].active = TRUE]
                          /\ Ret(op, def.uuid, "", "OK", c1 \o <<"refreshPool">>)

storagePoolDefineXMLCheckNoDup(def) ==
    IF virStoragePoolSourceFindDuplicate(def) THEN "OPERATION_FAILED" ELSE "OK"

storagePoolDefineXMLCheck(def) ==
    LET dup == virStoragePoolObjIsDuplicate(def, FALSE)
    IN IF dup # "OK" THEN dup
       ELSE IF virStoragePoolSourceFindDuplicate(def) THEN "OPERATION_FAILED"
       ELSE "OK"

storagePoolDefineXML(def, saveOk) ==
    /\ res = NoRes
    /\ LET err == storagePoolDefineXMLCheck(def)
           op == "storagePoolDefineXML"
       IN IF err # "OK" THEN Fail(op, def.uuid, "", err, <<>>)
          ELSE /\ CanAssign(def)
               /\ Frame
               /\ LET s == AssignSlot(def)
                      ps == virStoragePoolObjAssignDef(def)
                  IN IF ~saveOk
                     THEN /\ pools' = virStoragePoolObjRemove(ps, s)
                          /\ Ret(op, def.uuid, "", "SYSTEM_ERROR", <<>>)
                     ELSE /\ pools' = [ps EXCEPT ![s].persistent = TRUE]
                          /\ Ret(op, def.uuid, "", "OK", <<>>)

\* the checks of storagePoolUndefine on the pool it found
storagePoolUndefineCheckNoActive(s) ==
    IF pools[s].asyncjobs > 0 THEN "INTERNAL_ERROR" ELSE "OK"

storagePoolUndefineCheck(s) ==
    IF virStoragePoolObjIsActive(s) THEN "OPERATION_INVALID"
    ELSE IF pools[s].asyncjobs > 0 THEN "INTERNAL_ERROR"
    ELSE "OK"

\* virStoragePoolObjDeleteDef: needs a config file, then unlinks it
virStoragePoolObjDeleteDef(s, unlinkOk) ==
    IF ~pools[s].persistent THEN "INTERNAL_ERROR"
    ELSE IF ~unlinkOk THEN "SYSTEM_ERROR"
    ELSE "OK"

storagePoolUndefine(uuid, unlinkOk) ==
    /\ res = NoRes
    /\ LET s == virStoragePoolObjFindByUUID(uuid)
           op == "storagePoolUndefine"
       IN IF s = 0 THEN Fail(op, uuid, "", "NO_STORAGE_POOL", <<>>)
          ELSE IF storagePoolUndefineCheck(s) # "OK"
          THEN Fail(op, uuid, "", storagePoolUndefineCheck(s), <<>>)
          ELSE IF virStoragePoolObjDeleteDef(s, unlinkOk) # "OK"
          THEN Fail(op, uuid, "", virStoragePoolObjDeleteDef(s, unlinkOk), <<>>)
          ELSE /\ pools' = virStoragePoolObjRemove(pools, s)
               /\ Ret(op, uuid, "", "OK", <<>>)
               /\ Frame

storagePoolCreate(uuid, startOk, refreshOk, found) ==
    /\ res = NoRes
    /\ LET s == virStoragePoolObjFindByUUID(uuid)
           op == "storagePoolCreate"
       IN IF s = 0 THEN Fail(op, uuid, "", "NO_STORAGE_POOL", <<>>)
          ELSE IF virStoragePoolObjIsActive(s)
          THEN Fail(op, uuid, "", "OPERATION_INVALID", <<>>)
          ELSE LET t == pools[s].type
                   c1 == IF Has(t, "startPool") THEN <<"startPool">> ELSE <<>>
                   c3 == IF Has(t, "stopPool") THEN <<"stopPool">> ELSE <<>>
               IN IF Has(t, "startPool") /\ ~startOk
                  THEN Fail(op, uuid, "", "BACKEND", c1)
                  ELSE IF ~refreshOk
                  THEN /\ pools' = refreshPool(pools, s, FALSE, found)
                       /\ Ret(op, uuid, "", "BACKEND",
                              c1 \o <<"refreshPool">> \o c3)
                       /\ Frame
                  ELSE /\ pools' = [refreshPool(pools, s, TRUE, found)
                                        EXCEPT ![s].active = TRUE]
                       /\ Ret(op, uuid, "", "OK", c1 \o <<"refreshPool">>)
                       /\ Frame

\* the state checks of storagePoolDestroy and storagePoolRefresh
storagePoolNeedsActive(s) ==
    IF ~virStoragePoolObjIsActive(s) THEN "OPERATION_INVALID" ELSE "OK"

storagePoolNeedsActiveIdle(s) ==
    IF ~virStoragePoolObjIsActive(s) THEN "OPERATION_INVALID"
    ELSE IF pools[s].asyncjobs > 0 THEN "INTERNAL_ERROR"
    ELSE "OK"

\* a destroy that leaves the staged definition where it is
PromoteNewDefLater(p) ==
    p

\* the pool's definition after a destroy: a staged definition takes over
PromoteNewDef(p) ==
    IF p.newDef # NoDef
    THEN [p EXCEPT !.name = p.newDef.name, !.uuid = p.newDef.uuid,
                   !.type = p.newDef.type, !.source = p.newDef.source,
                   !.capacity = 0, !.allocation = 0, !.available = 0,
                   !.newDef = NoDef]
    ELSE p

storagePoolDestroy(uuid, stopOk) ==
    /\ res = NoRes
    /\ LET s == virStoragePoolObjFindByUUID(uuid)
           op == "storagePoolDestroy"
       IN IF s = 0 THEN Fail(op, uuid, "", "NO_STORAGE_POOL", <<>>)
          ELSE IF storagePoolNeedsActiveIdle(s) # "OK"
          THEN Fail(op, uuid, "", storagePoolNeedsActiveIdle(s), <<>>)
          ELSE IF Has(pools[s].type, "stopPool") /\ ~stopOk
          THEN Fail(op, uuid, "", "BACKEND", <<"stopPool">>)
          ELSE LET c == IF Has(pools[s].type, "stopPool") THEN <<"stopPool">>
                        ELSE <<>>
                   ps == [virStoragePoolObjClearVols(pools, s)
                             EXCEPT ![s].active = FALSE]
               IN /\ pools' = IF ~pools[s].persistent
                              THEN virStoragePoolObjRemove(ps, s)
                              ELSE [ps EXCEPT ![s] = PromoteNewDef(@)]
                  /\ Ret(op, uuid, "", "OK", c)
                  /\ Frame

\* what storagePoolRefresh does to the pool whose refreshPool failed
storagePoolRefreshFailedStaysActive(ps, s) ==
    ps

\* the pool is deactivated and kept, with or without a config file
storagePoolRefreshFailedKept(ps, s) ==
    [ps EXCEPT ![s].active = FALSE]

\* a pool without a config file is removed, any other deactivated
storagePoolRefreshFailed(ps, s) ==
    IF ~ps[s].persistent
    THEN virStoragePoolObjRemove(ps, s)
    ELSE [ps EXCEPT ![s].active = FALSE]

storagePoolRefresh(uuid, refreshOk, found) ==
    /\ res = NoRes
    /\ LET s == virStoragePoolObjFindByUUID(uuid)
           op == "storagePoolRefresh"
       IN IF s = 0 THEN Fail(op, uuid, "", "NO_STORAGE_POOL", <<>>)
          ELSE IF storagePoolNeedsActiveIdle(s) # "OK"
          THEN Fail(op, uuid, "", storagePoolNeedsActiveIdle(s), <<>>)
          ELSE LET c3 == IF Has(pools[s].type, "stopPool") THEN <<"stopPool">>
                         ELSE <<>>
                   ps == refreshPool(virStoragePoolObjClearVols(pools, s), s,
                                     refreshOk, found)
               IN /\ Frame
                  /\ IF refreshOk
                     THEN /\ pools' = ps
                          /\ Ret(op, uuid, "", "OK", <<"refreshPool">>)
                     ELSE /\ pools' = storagePoolRefreshFailed(ps, s)
                          /\ Ret(op, uuid, "", "BACKEND", <<"refreshPool">> \o c3)

\* pool->autostart follows the symlink in the autostart directory; only a
\* pool with a config file has one
storagePoolSetAutostart(uuid, autostart, linkOk) ==
    /\ res = NoRes
    /\ LET s == virStoragePoolObjFindByUUID(uuid)
           op == "storagePoolSetAutostart"
       IN IF s = 0 THEN Fail(op, uuid, "", "NO_STORAGE_POOL", <<>>)
          ELSE IF ~pools[s].persistent
          THEN Fail(op, uuid, "", "INTERNAL_ERROR", <<>>)
          ELSE IF pools[s].autostart # autostart /\ ~linkOk
          THEN Fail(op, uuid, "", "SYSTEM_ERROR", <<>>)
          ELSE /\ pools' = [pools EXCEPT ![s].autostart = autostart]
               /\ Ret(op, uuid, "", "OK", <<>>)
               /\ Frame

\* what the backend of one pool answers during storageDriverAutostart:
\* checkPool fails, or finds the pool stopped or running; startPool and
\* refreshPool succeed or fail (TRUE where the call is not reached)
AutostartAnswers ==
    {w \in [check : {"fail", "stopped", "running"},
            startOk : BOOLEAN, refreshOk : BOOLEAN] :
        /\ w.check = "fail" => w.startOk /\ w.refreshOk
        /\ w.check = "running" => w.startOk
        /\ ~w.startOk => w.refreshOk}

\* how one turn of the loop ends for pool object p: "checkPool", "startPool"
\* or "refreshPool" when that call failed (the turn logs it and goes on),
\* "idle" when the pool was not started, "active" when it was
storageDriverAutostartTurn(p, w) ==
    LET started == Has(p.type, "checkPool") /\ w.check = "running"
        starts == ~started /\ p.autostart /\ ~p.active
    IN IF Has(p.type, "checkPool") /\ w.check = "fail" THEN "checkPool"
       ELSE IF starts /\ Has(p.type, "startPool") /\ ~w.startOk
       THEN "startPool"
       ELSE IF ~(started \/ starts) THEN "idle"
       ELSE IF ~w.refreshOk THEN "refreshPool"
       ELSE "active"

\* a turn that takes the pool for started whatever refreshPool returned
storageDriverAutostartPoolStarted(ps, s, w, found) ==
    LET turn == storageDriverAutostartTurn(ps[s], w)
    IN CASE turn = "refreshPool" ->
                [refreshPool(ps, s, FALSE, found) EXCEPT ![s].active = TRUE]
         [] turn = "active" ->
                [refreshPool(ps, s, TRUE, found) EXCEPT ![s].active = TRUE]
         [] OTHER -> ps

\* one turn of the loop on pool object s: refreshPool runs on the volume
\* list as it is, and only its success sets active
storageDriverAutostartPool(ps, s, w, found) ==
    LET turn == storageDriverAutostartTurn(ps[s], w)
    IN CASE turn = "refreshPool" -> refreshPool(ps, s, FALSE, found)
         [] turn = "active" ->
                [refreshPool(ps, s, TRUE, found) EXCEPT ![s].active = TRUE]
         [] OTHER -> ps

\* the loop of storageDriverAutostart from pool object s on
RECURSIVE storageDriverAutostartFrom(_, _, _, _)
storageDriverAutostartFrom(ps, s, answers, found) ==
    IF s > MaxPools THEN ps
    ELSE storageDriverAutostartFrom(
             IF ps[s] = NoPool THEN ps
             ELSE storageDriverAutostartPool(ps, s, answers[s], found),
             s + 1, answers, found)

storageDriverAutostart(ps, answers, found) ==
    storageDriverAutostartFrom(ps, 1, answers, found)

\* the pools whose turn logged a failure (VIR_ERROR), in the order of the loop
RECURSIVE storageDriverAutostartLog(_, _, _)
storageDriverAutostartLog(ps, s, answers) ==
    IF s > MaxPools THEN <<>>
    ELSE (IF ps[s] # NoPool /\
             storageDriverAutostartTurn(ps[s], answers[s])
                 \in {"checkPool", "startPool", "refreshPool"}
          THEN <<ps[s].name>> ELSE <<>>)
         \o storageDriverAutostartLog(ps, s + 1, answers)

\* no volume list grows past MaxVols
VolsBounded(ps) ==
    \A s \in Slots : ps[s] # NoPool => Len(ps[s].volumes) <= MaxVols

\* storageStateAutoStart runs once, when the daemon comes up: the pools
\* are those of the config directory and none has been started
storageStateAutoStart(answers, found) ==
    /\ res = NoRes
    /\ \A s \in Live : pools[s].persistent /\ ~pools[s].active
    /\ LET ps == storageDriverAutostart(pools, answers, found)
       IN /\ VolsBounded(ps)
          /\ pools' = ps
          /\ res' = [NoRes EXCEPT !.op = "storageStateAutoStart", !.err = "OK",
                         !.out = storageDriverAutostartLog(pools, 1, answers)]
          /\ Frame

\* virStoragePoolLoadAllConfigs: every pool with a config file has the
\* definition of that file assigned again, which an active pool stages and
\* an inactive pool takes as its definition
virStoragePoolLoadAllConfigs(ps) ==
    [s \in Slots |->
        IF ps[s] = NoPool \/ ~ps[s].persistent THEN ps[s]
        ELSE IF ps[s].active
        THEN IF ps[s].newDef # NoDef THEN ps[s]
             ELSE [ps[s] EXCEPT !.newDef =
                       PoolDef(ps[s].name, ps[s].uuid, ps[s].type, ps[s].source)]
        ELSE [ps[s] EXCEPT !.capacity = 0, !.allocation = 0, !.available = 0]]

storageStateReload(answers, found) ==
    /\ res = NoRes
    /\ LET loaded == virStoragePoolLoadAllConfigs(pools)
           ps == storageDriverAutostart(loaded, answers, found)
       IN /\ VolsBounded(ps)
          /\ pools' = ps
          /\ res' = [NoRes EXCEPT !.op = "storageStateReload", !.err = "OK",
                         !.out = storageDriverAutostartLog(loaded, 1, answers)]
          /\ Frame

\* backend->buildPool is called when the backend has one; without it the
\* call goes on to return 0
storagePoolBuild(uuid, ok) ==
    /\ res = NoRes
    /\ LET s == virStoragePoolObjFindByUUID(uuid)
           op == "storagePoolBuild"
       IN IF s = 0 THEN Fail(op, uuid, "", "NO_STORAGE_POOL", <<>>)
          ELSE IF virStoragePoolObjIsActive(s)
          THEN Fail(op, uuid, "", "OPERATION_INVALID", <<>>)
          ELSE IF ~Has(pools[s].type, "buildPool")
          THEN Fail(op, uuid, "", "OK", <<>>)
          ELSE Fail(op, uuid, "", IF ok THEN "OK" ELSE "BACKEND", <<"buildPool">>)

\* the checks of storagePoolDelete on the pool it found
storagePoolDeleteCheck(s) ==
    IF virStoragePoolObjIsActive(s) THEN "OPERATION_INVALID"
    ELSE IF pools[s].asyncjobs > 0 THEN "INTERNAL_ERROR"
    ELSE IF ~Has(pools[s].type, "deletePool") THEN "NO_SUPPORT"
    ELSE "OK"

storagePoolDelete(uuid, ok) ==
    /\ res = NoRes
    /\ LET s == virStoragePoolObjFindByUUID(uuid)
           op == "storagePoolDelete"
       IN IF s = 0 THEN Fail(op, uuid, "", "NO_STORAGE_POOL", <<>>)
          ELSE IF storagePoolDeleteCheck(s) # "OK"
          THEN Fail(op, uuid, "", storagePoolDeleteCheck(s), <<>>)
          ELSE Fail(op, uuid, "", IF ok THEN "OK" ELSE "BACKEND", <<"deletePool">>)

(***************************************************************************)
(* Volume operations                                                       *)
(***************************************************************************)
\* virStorageVolDefFromVol: the pool by name, active, the volume by name
virStorageVolDefFromVol(pool, vol) ==
    LET s == virStoragePoolObjFindByName(pool)
    IN IF s = 0 THEN [err |-> "NO_STORAGE_POOL", s |-> 0, i |-> 0]
       ELSE IF ~virStoragePoolObjIsActive(s)
       THEN [err |-> "OPERATION_INVALID", s |-> s, i |-> 0]
       ELSE IF virStorageVolDefFindByName(pools, s, vol) = 0
       THEN [err |-> "NO_STORAGE_VOL", s |-> s, i |-> 0]
       ELSE [err |-> "OK", s |-> s, i |-> virStorageVolDefFindByName(pools, s, vol)]

\* backend->refreshVol: the allocation is read again from the media
refreshVol(v, grown) ==
    IF grown THEN [v EXCEPT !.allocation = v.capacity] ELSE v

\* storageVolDeleteInternal on the volume object id of pool s
storageVolDeleteInternalKeepMeta(ps, s, id, updateMeta, delOk) ==
    IF ~Has(ps[s].type, "deleteVol") THEN [err |-> "NO_SUPPORT", ps |-> ps]
    ELSE IF ~delOk THEN [err |-> "BACKEND", ps |-> ps]
    ELSE LET i == VolIndexOf(ps, s, id)
         IN [err |-> "OK",
             ps |-> IF i = 0 THEN ps
                    ELSE [ps EXCEPT ![s].volumes = RemoveAt(@, i)]]

storageVolDeleteInternal(ps, s, id, updateMeta, delOk) ==
    IF ~Has(ps[s].type, "deleteVol") THEN [err |-> "NO_SUPPORT", ps |-> ps]
    ELSE IF ~delOk THEN [err |-> "BACKEND", ps |-> ps]
    ELSE LET i == VolIndexOf(ps, s, id)
             a == IF i = 0 THEN 0 ELSE ps[s].volumes[i].allocation
             m == IF updateMeta
                  THEN [ps EXCEPT ![s].allocation = USub(@, a),
                                  ![s].available = UAdd(@, a)]
                  ELSE ps
         IN [err |-> "OK",
             ps |-> IF i = 0 THEN m
                    ELSE [m EXCEPT ![s].volumes = RemoveAt(@, i)]]

\* the guards on the volume before it is deleted, written to or resized
VolBusyNoInUse(v) ==
    IF v.building THEN "OPERATION_INVALID" ELSE "OK"

VolBusy(v) ==
    IF v.in_use > 0 THEN "OPERATION_INVALID"
    ELSE IF v.building THEN "OPERATION_INVALID"
    ELSE "OK"

DeleteCalls(t) == IF Has(t, "deleteVol") THEN <<"deleteVol">> ELSE <<>>

storageVolDelete(pool, vol, delOk) ==
    /\ res = NoRes
    /\ LET f == virStorageVolDefFromVol(pool, vol)
           op == "storageVolDelete"
       IN IF f.err # "OK" THEN Fail(op, pool, vol, f.err, <<>>)
          ELSE LET v == pools[f.s].volumes[f.i]
                   d == storageVolDeleteInternal(pools, f.s, v.id, TRUE, delOk)
               IN IF VolBusy(v) # "OK" THEN Fail(op, pool, vol, VolBusy(v), <<>>)
                  ELSE /\ pools' = d.ps
                       /\ Ret(op, pool, vol, d.err, DeleteCalls(pools[f.s].type))
                       /\ Frame

\* a backend function that leaves the driver's records alone
VolBackendCall(op, fn, pool, vol, argErr, ok) ==
    /\ res = NoRes
    /\ LET f == virStorageVolDefFromVol(pool, vol)
       IN IF argErr THEN Fail(op, pool, vol, "INVALID_ARG", <<>>)
          ELSE IF f.err # "OK" THEN Fail(op, pool, vol, f.err, <<>>)
          ELSE LET v == pools[f.s].volumes[f.i]
               IN IF VolBusy(v) # "OK" THEN Fail(op, pool, vol, VolBusy(v), <<>>)
                  ELSE IF ~Has(pools[f.s].type, fn)
                  THEN Fail(op, pool, vol, "NO_SUPPORT", <<>>)
                  ELSE Fail(op, pool, vol, IF ok THEN "OK" ELSE "BACKEND", <<fn>>)

\* flags outside the mask of virCheckFlags are refused on entry
storageVolUpload(pool, vol, badFlags, ok) ==
    VolBackendCall("storageVolUpload", "uploadVol", pool, vol, badFlags, ok)

\* so is an algorithm at or past VIR_STORAGE_VOL_WIPE_ALG_LAST
storageVolWipePattern(pool, vol, badFlags, badAlgorithm, ok) ==
    VolBackendCall("storageVolWipePattern", "wipeVol", pool, vol,
                   badFlags \/ badAlgorithm, ok)

ResizeFlags == {"ALLOCATE", "DELTA", "SHRINK"}

\* abs_capacity of storageVolResize
AbsCapacity(v, capacity, flags) ==
    IF "DELTA" \in flags THEN UAdd(v.capacity, capacity) ELSE capacity

\* the argument checks of storageVolResize, in the order of the code
storageVolResizeCheckNoShrink(p, v, capacity, flags) ==
    LET abs == AbsCapacity(v, capacity, flags)
    IN IF abs < v.allocation THEN "INVALID_ARG"
       ELSE IF abs > UAdd(v.capacity, p.available) THEN "OPERATION_FAILED"
       ELSE IF ~Has(p.type, "resizeVol") THEN "NO_SUPPORT"
       ELSE "OK"

storageVolResizeCheck(p, v, capacity, flags) ==
    LET abs == AbsCapacity(v, capacity, flags)
    IN IF abs < v.allocation THEN "INVALID_ARG"
       ELSE IF abs < v.capacity /\ "SHRINK" \notin flags THEN "INVALID_ARG"
       ELSE IF abs > UAdd(v.capacity, p.available) THEN "OPERATION_FAILED"
       ELSE IF ~Has(p.type, "resizeVol") THEN "NO_SUPPORT"
       ELSE "OK"

\* the records after a resize the backend carried out: the volume first,
\* then the pool with the volume's capacity as it is by then
storageVolResizeUpdate(p, i, abs, flags) ==
    LET v1 == [p.volumes[i] EXCEPT
                  !.capacity = abs,
                  !.allocation = IF "ALLOCATE" \in flags THEN abs ELSE @]
    IN [p EXCEPT !.volumes[i] = v1,
                 !.allocation = UAdd(@, USub(abs, v1.capacity)),
                 !.available = USub(@, USub(abs, v1.capacity))]

storageVolResize(pool, vol, capacity, flags, ok) ==
    /\ res = NoRes
    /\ LET f == virStorageVolDefFromVol(pool, vol)
           op == "storageVolResize"
       IN IF ~(flags \subseteq ResizeFlags)
          THEN Fail(op, pool, vol, "INVALID_ARG", <<>>)
          ELSE IF f.err # "OK" THEN Fail(op, pool, vol, f.err, <<>>)
          ELSE LET p == pools[f.s]
                   v == p.volumes[f.i]
                   chk == storageVolResizeCheck(p, v, capacity, flags)
               IN IF VolBusy(v) # "OK" THEN Fail(op, pool, vol, VolBusy(v), <<>>)
                  ELSE IF chk # "OK" THEN Fail(op, pool, vol, chk, <<>>)
                  ELSE IF ~ok THEN Fail(op, pool, vol, "BACKEND", <<"resizeVol">>)
                  ELSE /\ AbsCapacity(v, capacity, flags) <= MaxCap
                       /\ pools' = [pools EXCEPT ![f.s] =
                                       storageVolResizeUpdate(
                                           p, f.i, AbsCapacity(v, capacity, flags),
                                           flags)]
                       /\ Ret(op, pool, vol, "OK", <<"resizeVol">>)
                       /\ Frame

storageVolGetInfo(pool, vol, ok, grown) ==
    /\ res = NoRes
    /\ LET f == virStorageVolDefFromVol(pool, vol)
           op == "storageVolGetInfo"
       IN IF f.err # "OK" THEN Fail(op, pool, vol, f.err, <<>>)
          ELSE IF ~Has(pools[f.s].type, "refreshVol")
          THEN Fail(op, pool, vol, "OK", <<>>)
          ELSE IF ~ok THEN Fail(op, pool, vol, "BACKEND", <<"refreshVol">>)
          ELSE /\ pools' = [pools EXCEPT ![f.s].volumes[f.i] = refreshVol(@, grown)]
               /\ Ret(op, pool, vol, "OK", <<"refreshVol">>)
               /\ Frame

(***************************************************************************)
(* Listings and lookups of the volumes of a pool                           *)
(***************************************************************************)
RECURSIVE VolNamesOf(_)
VolNamesOf(vols) ==
    IF vols = <<>> THEN <<>> ELSE <<Head(vols).name>> \o VolNamesOf(Tail(vols))

\* a listing returns: the names it copied out and their number
RetList(op, pool, names, n) ==
    /\ res = NoRes
    /\ res' = [NoRes EXCEPT !.op = op, !.pool = pool, !.err = "OK",
                            !.out = names, !.n = n]
    /\ UNCHANGED <<pools, jobs, chain, lockvars>>

\* a count that is handed out whatever the state of the pool
storagePoolNumOfVolumesAnyState(uuid) ==
    /\ res = NoRes
    /\ LET s == virStoragePoolObjFindByUUID(uuid)
           op == "storagePoolNumOfVolumes"
       IN IF s = 0 THEN Fail(op, uuid, "", "NO_STORAGE_POOL", <<>>)
          ELSE RetList(op, uuid, <<>>, Len(pools[s].volumes))

storagePoolNumOfVolumes(uuid) ==
    /\ res = NoRes
    /\ LET s == virStoragePoolObjFindByUUID(uuid)
           op == "storagePoolNumOfVolumes"
       IN IF s = 0 THEN Fail(op, uuid, "", "NO_STORAGE_POOL", <<>>)
          ELSE IF ~virStoragePoolObjIsActive(s)
          THEN Fail(op, uuid, "", "OPERATION_INVALID", <<>>)
          ELSE RetList(op, uuid, <<>>, Len(pools[s].volumes))

\* the caller's array has room for maxnames names
storagePoolListVolumes(uuid, maxnames) ==
    /\ res = NoRes
    /\ LET s == virStoragePoolObjFindByUUID(uuid)
           op == "storagePoolListVolumes"
       IN IF s = 0 THEN Fail(op, uuid, "", "NO_STORAGE_POOL", <<>>)
          ELSE IF ~virStoragePoolObjIsActive(s)
          THEN Fail(op, uuid, "", "OPERATION_INVALID", <<>>)
          ELSE LET names == VolNamesOf(pools[s].volumes)
                   n == IF Len(names) < maxnames THEN Len(names) ELSE maxnames
               IN RetList(op, uuid, SubSeq(names, 1, n), n)

storageVolLookupByName(uuid, name) ==
    /\ res = NoRes
    /\ LET s == virStoragePoolObjFindByUUID(uuid)
           op == "storageVolLookupByName"
       IN IF s = 0 THEN Fail(op, uuid, name, "NO_STORAGE_POOL", <<>>)
          ELSE IF ~virStoragePoolObjIsActive(s)
          THEN Fail(op, uuid, name, "OPERATION_INVALID", <<>>)
          ELSE IF virStorageVolDefFindByName(pools, s, name) = 0
          THEN Fail(op, uuid, name, "NO_STORAGE_VOL", <<>>)
          ELSE Fail(op, uuid, name, "OK", <<>>)

\* vols = NULL asks for the count alone
storagePoolListAllVolumes(uuid, wantVols) ==
    /\ res = NoRes
    /\ LET s == virStoragePoolObjFindByUUID(uuid)
           op == "storagePoolListAllVolumes"
       IN IF s = 0 THEN Fail(op, uuid, "", "NO_STORAGE_POOL", <<>>)
          ELSE IF ~virStoragePoolObjIsActive(s)
          THEN Fail(op, uuid, "", "OPERATION_INVALID", <<>>)
          ELSE IF ~wantVols
          THEN RetList(op, uuid, <<>>, Len(pools[s].volumes))
          ELSE RetList(op, uuid, VolNamesOf(pools[s].volumes),
                       Len(pools[s].volumes))

\* key and path of a volume: its name under the source of its pool
VolKey(p, v) == <<p.source, v.name>>

\* virStorageVolDefFindByKey / ByPath: index of the first volume of pool s
\* with that key, 0 when there is none
virStorageVolDefFindByKey(s, key) ==
    LET m == {i \in 1..Len(pools[s].volumes) :
                  VolKey(pools[s], pools[s].volumes[i]) = key}
    IN IF m = {} THEN 0 ELSE CHOOSE i \in m : \A k \in m : i <= k

\* the pools a lookup by key or path searches: the active ones, and for a
\* path those whose stable path could be worked out
SearchedPools(skipped) ==
    {s \in Live : virStoragePoolObjIsActive(s) /\ s \notin skipped}

\* the loop over driver->pools.objs stops at the first pool holding the key
VolLookup(op, key, skipped) ==
    /\ res = NoRes
    /\ LET m == {s \in SearchedPools(skipped) :
                     virStorageVolDefFindByKey(s, key) # 0}
       IN IF m = {} THEN Fail(op, "", key[2], "NO_STORAGE_VOL", <<>>)
          ELSE LET s == CHOOSE t \in m : \A u \in m : t <= u
               IN Fail(op, pools[s].name, key[2], "OK", <<>>)

storageVolLookupByKey(key) == VolLookup("storageVolLookupByKey", key, {})

\* virStorageBackendStablePath fails for the pools of `unstable'
storageVolLookupByPath(path, unstable) ==
    VolLookup("storageVolLookupByPath", path, unstable)

(***************************************************************************)
(* Volume creation: the part up to the unlock, and the part from the       *)
(* relock on.                                                              *)
(***************************************************************************)
NoJob == [op |-> "", uuid |-> "", pool |-> 0, vol |-> 0, name |-> "",
          alloc |-> 0, origpool |-> 0, origvol |-> 0]

\* a pool object the thread of job j points to is no longer in the store:
\* what the thread then does to the freed memory is not followed further
Freed(j) ==
    pools[j.pool] = NoPool \/ (j.origpool # 0 /\ pools[j.origpool] = NoPool)

\* voldef->building = b on the volume object id of pool s, if it is listed
SetBuilding(ps, s, id, b) ==
    LET i == VolIndexOf(ps, s, id)
    IN IF i = 0 THEN ps ELSE [ps EXCEPT ![s].volumes[i].building = b]

AddInUseNeverBack(ps, s, id, n) ==
    LET i == VolIndexOf(ps, s, id)
    IN IF i = 0 \/ n < 0 THEN ps ELSE [ps EXCEPT ![s].volumes[i].in_use = @ + n]

\* origvol->in_use += n on the volume object id of pool s, if it is listed
AddInUse(ps, s, id, n) ==
    LET i == VolIndexOf(ps, s, id)
    IN IF i = 0 THEN ps ELSE [ps EXCEPT ![s].volumes[i].in_use = @ + n]

\* "Update pool metadata" of a finished creation
PoolAddAllocation(p, a) ==
    [p EXCEPT !.allocation = UAdd(@, a), !.available = USub(@, a)]

storageVolCreateXMLCheck(s, vd) ==
    IF ~virStoragePoolObjIsActive(s) THEN "OPERATION_INVALID"
    ELSE IF virStorageVolDefFindByName(pools, s, vd.name) # 0
    THEN "STORAGE_VOL_EXIST"
    ELSE IF ~Has(pools[s].type, "createVol") THEN "NO_SUPPORT"
    ELSE "OK"

storageVolCreateXML(uuid, vd, createOk) ==
    /\ res = NoRes
    /\ LET s == virStoragePoolObjFindByUUID(uuid)
           op == "storageVolCreateXML"
       IN IF s = 0 THEN Fail(op, uuid, vd.name, "NO_STORAGE_POOL", <<>>)
          ELSE IF storageVolCreateXMLCheck(s, vd) # "OK"
          THEN Fail(op, uuid, vd.name, storageVolCreateXMLCheck(s, vd), <<>>)
          ELSE IF ~createOk THEN Fail(op, uuid, vd.name, "BACKEND", <<"createVol">>)
          ELSE LET id == NewId(pools)
                   ps == [pools EXCEPT ![s].volumes = Append(@, NewVol(id, vd))]
               IN /\ Len(pools[s].volumes) < MaxVols
                  /\ UNCHANGED <<chain, lockvars>>
                  /\ IF Has(pools[s].type, "buildVol")
                     THEN /\ Cardinality(jobs) < MaxJobs
                          /\ pools' = [SetBuilding(ps, s, id, TRUE)
                                          EXCEPT ![s].asyncjobs = @ + 1]
                          /\ jobs' = jobs \cup
                                 {[NoJob EXCEPT !.op = op, !.uuid = uuid,
                                                !.pool = s, !.vol = id,
                                                !.name = vd.name,
                                                !.alloc = vd.allocation]}
                          /\ NoRet
                     ELSE /\ pools' = [ps EXCEPT ![s] =
                                          PoolAddAllocation(@, vd.allocation)]
                          /\ jobs' = jobs
                          /\ Ret(op, uuid, vd.name, "OK", <<"createVol">>)

\* from the relock after backend->buildVol to the return
storageVolCreateXMLBuilt(j, buildOk, delOk) ==
    /\ res = NoRes
    /\ LET s == j.pool
           op == "storageVolCreateXML"
           ps == [SetBuilding(pools, s, j.vol, FALSE)
                     EXCEPT ![s].asyncjobs = @ - 1]
           d == storageVolDeleteInternal(ps, s, j.vol, FALSE, delOk)
       IN /\ j \in jobs
          /\ j.op = op
          /\ jobs' = jobs \ {j}
          /\ UNCHANGED <<chain, lockvars>>
          /\ IF Freed(j)
             THEN /\ pools' = pools
                  /\ Ret(op, "", j.name, "USE_AFTER_FREE", <<"buildVol">>)
             ELSE IF ~buildOk
             THEN /\ pools' = d.ps
                  /\ Ret(op, pools[s].uuid, j.name, "BACKEND",
                         <<"buildVol">> \o DeleteCalls(pools[s].type))
             ELSE /\ pools' = [ps EXCEPT ![s] = PoolAddAllocation(@, j.alloc)]
                  /\ Ret(op, pools[s].uuid, j.name, "OK", <<"buildVol">>)

\* a copy whose allocation alone is raised to the size of the source
CloneSizesAllocationOnly(vd, origvol) ==
    [vd EXCEPT !.allocation = IF vd.allocation < origvol.capacity
                              THEN origvol.capacity ELSE vd.allocation]

\* the new volume is made at least as large as the one it is copied from
CloneSizes(vd, origvol) ==
    LET c == IF vd.capacity < origvol.capacity THEN origvol.capacity
             ELSE vd.capacity
        a == IF vd.allocation < origvol.capacity THEN origvol.capacity
             ELSE vd.allocation
    IN [vd EXCEPT !.capacity = c, !.allocation = a]

\* obj is the handle of the target pool, vobj that of the source volume
storageVolCreateXMLFrom(obj, vobj, vd, refreshOk, grown, createOk) ==
    /\ res = NoRes
    /\ LET op == "storageVolCreateXMLFrom"
           s == virStoragePoolObjFindByUUID(obj.uuid)
           other == obj.name # vobj.pool
           o == IF s # 0 /\ other THEN virStoragePoolObjFindByName(vobj.pool) ELSE 0
           src == IF o # 0 THEN o ELSE s
       IN IF s = 0 THEN Fail(op, obj.uuid, vd.name, "NO_STORAGE_POOL", <<>>)
          ELSE IF other /\ o = 0
          THEN Fail(op, obj.uuid, vd.name, "NO_STORAGE_POOL", <<>>)
          ELSE IF ~virStoragePoolObjIsActive(s)
          THEN Fail(op, obj.uuid, vd.name, "OPERATION_INVALID", <<>>)
          ELSE IF o # 0 /\ ~virStoragePoolObjIsActive(o)
          THEN Fail(op, obj.uuid, vd.name, "OPERATION_INVALID", <<>>)
          ELSE IF virStorageVolDefFindByName(pools, src, vobj.name) = 0
          THEN Fail(op, obj.uuid, vd.name, "NO_STORAGE_VOL", <<>>)
          ELSE IF virStorageVolDefFindByName(pools, s, vd.name) # 0
          THEN Fail(op, obj.uuid, vd.name, "INTERNAL_ERROR", <<>>)
          ELSE IF ~Has(pools[s].type, "buildVolFrom")
          THEN Fail(op, obj.uuid, vd.name, "NO_SUPPORT", <<>>)
          ELSE
          LET oi == virStorageVolDefFindByName(pools, src, vobj.name)
              origvol == pools[src].volumes[oi]
              nd == CloneSizes(vd, origvol)
              rc == IF Has(pools[s].type, "refreshVol") THEN <<"refreshVol">>
                    ELSE <<>>
              ps1 == IF Has(pools[s].type, "refreshVol")
                     THEN [pools EXCEPT ![src].volumes[oi] = refreshVol(@, grown)]
                     ELSE pools
              id == NewId(pools)
              ps2 == [ps1 EXCEPT ![s].volumes = Append(@, NewVol(id, nd))]
              ps3 == [AddInUse(SetBuilding(ps2, s, id, TRUE),
                               src, origvol.id, 1)
                         EXCEPT ![s].asyncjobs = @ + 1]
          IN IF origvol.building
             THEN Fail(op, obj.uuid, vd.name, "OPERATION_INVALID", <<>>)
             ELSE IF Has(pools[s].type, "refreshVol") /\ ~refreshOk
             THEN Fail(op, obj.uuid, vd.name, "BACKEND", rc)
             ELSE IF ~createOk
             THEN /\ pools' = ps1
                  /\ Ret(op, obj.uuid, vd.name, "BACKEND", rc \o <<"createVol">>)
                  /\ Frame
             ELSE /\ o # s
                  /\ Len(pools[s].volumes) < MaxVols
                  /\ Cardinality(jobs) < MaxJobs
                  /\ pools' = IF o # 0 THEN [ps3 EXCEPT ![o].asyncjobs = @ + 1]
                              ELSE ps3
                  /\ jobs' = jobs \cup
                         {[NoJob EXCEPT !.op = op, !.uuid = obj.uuid,
                                        !.pool = s, !.vol = id,
                                        !.name = vd.name, !.origpool = o,
                                        !.origvol = origvol.id]}
                  /\ NoRet
                  /\ UNCHANGED <<chain, lockvars>>

\* a copy that leaves the count of the source pool as it is
storageVolCreateXMLFromBuiltTargetOnly(j, buildOk, delOk) ==
    /\ res = NoRes
    /\ LET s == j.pool
           o == j.origpool
           src == IF o # 0 THEN o ELSE s
           op == "storageVolCreateXMLFrom"
           i == VolIndexOf(pools, s, j.vol)
           allocation == IF i = 0 THEN 0 ELSE pools[s].volumes[i].allocation
           ps1 == [SetBuilding(AddInUse(pools, src, j.origvol, -1),
                               s, j.vol, FALSE)
                      EXCEPT ![s].asyncjobs = @ - 1]
           ps2 == ps1
           d == storageVolDeleteInternal(ps2, s, j.vol, FALSE, delOk)
       IN /\ j \in jobs
          /\ j.op = op
          /\ jobs' = jobs \ {j}
          /\ UNCHANGED <<chain, lockvars>>
          /\ IF Freed(j)
             THEN /\ pools' = pools
                  /\ Ret(op, "", j.name, "USE_AFTER_FREE", <<"buildVolFrom">>)
             ELSE IF ~buildOk
             THEN /\ pools' = d.ps
                  /\ Ret(op, pools[s].uuid, j.name, "BACKEND",
                         <<"buildVolFrom">> \o DeleteCalls(pools[s].type))
             ELSE /\ pools' = [ps2 EXCEPT ![s] = PoolAddAllocation(@, allocation)]
                  /\ Ret(op, pools[s].uuid, j.name, "OK", <<"buildVolFrom">>)

\* from the relock after backend->buildVolFrom to the return
storageVolCreateXMLFromBuilt(j, buildOk, delOk) ==
    /\ res = NoRes
    /\ LET s == j.pool
           o == j.origpool
           src == IF o # 0 THEN o ELSE s
           op == "storageVolCreateXMLFrom"
           i == VolIndexOf(pools, s, j.vol)
           allocation == IF i = 0 THEN 0 ELSE pools[s].volumes[i].allocation
           ps1 == [SetBuilding(AddInUse(pools, src, j.origvol, -1),
                               s, j.vol, FALSE)
                      EXCEPT ![s].asyncjobs = @ - 1]
           ps2 == IF o # 0 THEN [ps1 EXCEPT ![o].asyncjobs = @ - 1] ELSE ps1
           d == storageVolDeleteInternal(ps2, s, j.vol, FALSE, delOk)
       IN /\ j \in jobs
          /\ j.op = op
          /\ jobs' = jobs \ {j}
          /\ UNCHANGED <<chain, lockvars>>
          /\ IF Freed(j)
             THEN /\ pools' = pools
                  /\ Ret(op, "", j.name, "USE_AFTER_FREE", <<"buildVolFrom">>)
             ELSE IF ~buildOk
             THEN /\ pools' = d.ps
                  /\ Ret(op, pools[s].uuid, j.name, "BACKEND",
                         <<"buildVolFrom">> \o DeleteCalls(pools[s].type))
             ELSE /\ pools' = [ps2 EXCEPT ![s] = PoolAddAllocation(@, allocation)]
                  /\ Ret(op, pools[s].uuid, j.name, "OK", <<"buildVolFrom">>)

(***************************************************************************)
(* Backing-chain walk (virStorageFileGetMetadata).  The images on the      *)
(* media are a world fixed before the call: image i names the image        *)
(* backing[i] as its backing store (0: none), and the first thing to go    *)
(* wrong on the way down, if anything does, is step `kind' on image        *)
(* faultAt.  An image is its own canonical identity.  The recursion is a   *)
(* stack of frames; the walk is one action per stretch of code between     *)
(* calls and returns of virStorageFileGetMetadataRecurse.                  *)
(***************************************************************************)
MaxImages == 3

Images == 1..MaxImages

\* the steps of virStorageFileGetMetadataRecurse that can go wrong
Faults ==
    {"unsupported", "init", "access", "identity", "header", "metadata",
     "newbacking"}

ImageWorlds ==
    {w \in [backing : [Images -> 0..MaxImages], faultAt : 0..MaxImages,
            kind : Faults] :
        w.faultAt = 0 => w.kind = "unsupported"}

\* enum virStorageFileFormat: the values the walk compares
FormatNum(format) ==
    CASE format = "AUTO_SAFE" -> -2
      [] format = "AUTO" -> -1
      [] format = "NONE" -> 0
      [] format = "RAW" -> 1
      [] OTHER -> 2

NewSource(img, format) ==
    [img |-> img, format |-> format, backingStore |-> <<>>, ret |-> -1,
     stage |-> "enter"]

\* a backing source that keeps the format its parent's header hints at
BackingStoreFormatAsHinted(backingFormat, allow_probe) ==
    IF backingFormat = "AUTO_SAFE" THEN "AUTO" ELSE backingFormat

\* the format given to a backing source
BackingStoreFormat(backingFormat, allow_probe) ==
    IF backingFormat = "AUTO" /\ ~allow_probe THEN "RAW"
    ELSE IF backingFormat = "AUTO_SAFE" THEN "AUTO"
    ELSE backingFormat

\* src->backingStoreRaw after virStorageFileGetMetadataInternal: a raw image
\* has no header to name a backing store
backingStoreRaw(c, f) ==
    IF f.format = "RAW" THEN 0 ELSE c.backing[f.img]

Top(c) == c.stack[Len(c.stack)]
SetTop(c, f) == [c.stack EXCEPT ![Len(c.stack)] = f]
Returned(f, ret) == [f EXCEPT !.ret = ret, !.stage = "ret"]

ChainFrame == UNCHANGED <<pools, jobs, res, lockvars>>

\* virStorageFileGetMetadata up to its call of the recursion, on image 1
virStorageFileGetMetadata(format, allow_probe) ==
    /\ chain.pc = "idle"
    /\ chain' = [chain EXCEPT
                    !.pc = "walking",
                    !.allow_probe = allow_probe,
                    !.cycle = {},
                    !.stack = <<NewSource(1,
                                   IF FormatNum(format) <= FormatNum("NONE")
                                   THEN IF allow_probe THEN "AUTO" ELSE "RAW"
                                   ELSE format)>>]
    /\ ChainFrame

\* a walk that does not look its source up among those it has seen
virStorageFileGetMetadataRecurseUnchecked(backingFormat) ==
    /\ chain.pc = "walking"
    /\ Top(chain).stage = "enter"
    /\ LET f == Top(chain)
           fault == IF chain.faultAt = f.img THEN chain.kind ELSE "none"
           fails(err) == [chain EXCEPT !.stack = SetTop(chain, Returned(f, -1)),
                                       !.err = err]
           seen == [chain EXCEPT !.cycle = @ \cup {f.img}]
           child == NewSource(backingStoreRaw(chain, f),
                              BackingStoreFormat(backingFormat,
                                                 chain.allow_probe))
       IN chain' =
            IF fault = "unsupported"
            THEN [chain EXCEPT !.stack = SetTop(chain, Returned(f, 0))]
            ELSE IF fault = "init" THEN fails("BACKEND")
            ELSE IF fault = "access" THEN fails("SYSTEM_ERROR")
            ELSE IF fault = "identity" THEN fails("BACKEND")
            ELSE IF fault \in {"header", "metadata"}
            THEN [seen EXCEPT !.stack = SetTop(chain, Returned(f, -1)),
                              !.err = "BACKEND"]
            ELSE IF backingStoreRaw(chain, f) = 0
            THEN [seen EXCEPT !.stack = SetTop(chain, Returned(f, 0))]
            ELSE IF fault = "newbacking"
            THEN [seen EXCEPT !.stack = SetTop(chain, Returned(f, -1)),
                              !.err = "BACKEND"]
            ELSE [seen EXCEPT !.stack = Append(SetTop(chain,
                                                  [f EXCEPT !.stage = "wait"]),
                                               child)]
    /\ ChainFrame

\* virStorageFileGetMetadataRecurse from its entry to its recursive call or
\* to its return; backingFormat is what the header says of the backing store
virStorageFileGetMetadataRecurse(backingFormat) ==
    /\ chain.pc = "walking"
    /\ Top(chain).stage = "enter"
    /\ LET f == Top(chain)
           fault == IF chain.faultAt = f.img THEN chain.kind ELSE "none"
           fails(err) == [chain EXCEPT !.stack = SetTop(chain, Returned(f, -1)),
                                       !.err = err]
           seen == [chain EXCEPT !.cycle = @ \cup {f.img}]
           child == NewSource(backingStoreRaw(chain, f),
                              BackingStoreFormat(backingFormat,
                                                 chain.allow_probe))
       IN chain' =
            IF fault = "unsupported"
            THEN [chain EXCEPT !.stack = SetTop(chain, Returned(f, 0))]
            ELSE IF fault = "init" THEN fails("BACKEND")
            ELSE IF fault = "access" THEN fails("SYSTEM_ERROR")
            ELSE IF fault = "identity" THEN fails("BACKEND")
            ELSE IF f.img \in chain.cycle THEN fails("SELF_REFERENTIAL")
            ELSE IF fault \in {"header", "metadata"}
            THEN [seen EXCEPT !.stack = SetTop(chain, Returned(f, -1)),
                              !.err = "BACKEND"]
            ELSE IF backingStoreRaw(chain, f) = 0
            THEN [seen EXCEPT !.stack = SetTop(chain, Returned(f, 0))]
            ELSE IF fault = "newbacking"
            THEN [seen EXCEPT !.stack = SetTop(chain, Returned(f, -1)),
                              !.err = "BACKEND"]
            ELSE [seen EXCEPT !.stack = Append(SetTop(chain,
                                                  [f EXCEPT !.stage = "wait"]),
                                               child)]
    /\ ChainFrame

\* the source after the recursive call on its backing store has returned
AcceptBackingStoreAlways(f, backingStore) ==
    Returned([f EXCEPT !.backingStore = <<backingStore>>], 0)

AcceptBackingStore(f, backingStore) ==
    IF backingStore.ret < 0
    THEN Returned(f, 0)
    ELSE Returned([f EXCEPT !.backingStore = <<backingStore>>], 0)

\* virStorageFileGetMetadataRecurse from the return of its recursive call
virStorageFileGetMetadataRecurseReturn ==
    /\ chain.pc = "walking"
    /\ Len(chain.stack) > 1
    /\ Top(chain).stage = "ret"
    /\ LET n == Len(chain.stack)
       IN chain' = [chain EXCEPT
                       !.stack = Append(SubSeq(@, 1, n - 2),
                                        AcceptBackingStore(@[n - 1], @[n]))]
    /\ ChainFrame

\* a call that reports success whatever the walk of the root returned
virStorageFileGetMetadataReturnSuccess ==
    /\ chain.pc = "walking"
    /\ Len(chain.stack) = 1
    /\ Top(chain).stage = "ret"
    /\ chain' = [chain EXCEPT !.pc = "done", !.cycle = {}, !.ret = 0]
    /\ ChainFrame

\* virStorageFileGetMetadata from the return of the recursion
virStorageFileGetMetadataReturn ==
    /\ chain.pc = "walking"
    /\ Len(chain.stack) = 1
    /\ Top(chain).stage = "ret"
    /\ chain' = [chain EXCEPT !.pc = "done", !.cycle = {},
                              !.ret = Top(chain).ret]
    /\ ChainFrame

\* the sources linked through backingStore, from src down
RECURSIVE BackingChain(_)
BackingChain(src) ==
    IF src.backingStore = <<>> THEN <<src.img>>
    ELSE <<src.img>> \o BackingChain(src.backingStore[1])

(***************************************************************************)
(* Locking.  Every API call runs on a thread of its own.  Of a handler,    *)
(* this part keeps the calls of storageDriverLock / storageDriverUnlock,   *)
(* virStoragePoolObjLock / virStoragePoolObjUnlock (a lookup in the store  *)
(* returns the pool it finds locked) and the backend calls, in the order   *)
(* of the source; a backend call that fails sends the handler to its       *)
(* cleanup label, as a failed check does.  What the handler does to pools  *)
(* and volumes in between is the subject of the actions above.  A thread   *)
(* is the list of steps it still has to take.  The mutexes are not         *)
(* recursive.  Copies inside one pool lock as storageVolCreateXML does;    *)
(* the copies followed here are those between two pools.                   *)
(***************************************************************************)
MaxThreads == 2         \* API calls running at once

Threads == 1..MaxThreads

\* steps of a handler: s is the pool object, fn the backend function
DL == [k |-> "storageDriverLock", s |-> 0, fn |-> ""]
DU == [k |-> "storageDriverUnlock", s |-> 0, fn |-> ""]
PL(s) == [k |-> "virStoragePoolObjLock", s |-> s, fn |-> ""]
PU(s) == [k |-> "virStoragePoolObjUnlock", s |-> s, fn |-> ""]
\* a backend call whose failure sends the handler to cleanup
BE(s, fn) == [k |-> "backend", s |-> s, fn |-> fn]
\* backend->buildVol / buildVolFrom: the result is kept in buildret
BUILD(s, fn) == [k |-> "build", s |-> s, fn |-> fn]
\* pool->asyncjobs++, voldef->building = true, origvol->in_use++
MARK == [k |-> "mark", s |-> 0, fn |-> ""]

Prog(todo, cleanup) == [todo |-> todo, cleanup |-> cleanup]

\* the driver lock is held for the lookup only; the pool comes back locked
virStoragePoolObjFromStoragePoolLocks(s) ==
    <<DL>> \o (IF s = 0 THEN <<>> ELSE <<PL(s)>>) \o <<DU>>

storagePoolCreateLocks(s) ==
    IF s = 0 THEN Prog(virStoragePoolObjFromStoragePoolLocks(0), <<>>)
    ELSE Prog(virStoragePoolObjFromStoragePoolLocks(s)
                  \o <<BE(s, "startPool"), BE(s, "refreshPool"), PU(s)>>,
              <<PU(s)>>)

\* virStorageVolDefFromVol looks the pool up the same way
storageVolDeleteLocks(s) ==
    IF s = 0 THEN Prog(virStoragePoolObjFromStoragePoolLocks(0), <<>>)
    ELSE Prog(virStoragePoolObjFromStoragePoolLocks(s)
                  \o <<BE(s, "deleteVol"), PU(s)>>,
              <<PU(s)>>)

\* the driver lock is kept to the end: the pool may have to be removed
storagePoolDestroyLocks(s) ==
    IF s = 0 THEN Prog(<<DL, DU>>, <<>>)
    ELSE Prog(<<DL, PL(s), BE(s, "stopPool"), PU(s), DU>>, <<PU(s), DU>>)

storagePoolRefreshLocks(s) ==
    IF s = 0 THEN Prog(<<DL, DU>>, <<>>)
    ELSE Prog(<<DL, PL(s), BE(s, "refreshPool"), PU(s), DU>>,
              <<PU(s), DU>>)

\* every pool of the store is locked in turn, under the driver lock
RECURSIVE VisitPools(_)
VisitPools(n) ==
    IF n = 0 THEN <<>>
    ELSE VisitPools(n - 1) \o
         (IF pools[n] = NoPool THEN <<>> ELSE <<PL(n), PU(n)>>)

storageVolLookupByKeyLocks ==
    Prog(<<DL>> \o VisitPools(MaxPools) \o <<DU>>, <<>>)

storageVolCreateXMLUnlockKept(s) == <<MARK>>

\* "Drop the pool lock during volume allocation"
storageVolCreateXMLUnlock(s) == <<MARK, PU(s)>>

storageVolCreateXMLRelockPoolFirst(s) == <<PL(s), DL, DU>>

storageVolCreateXMLRelock(s) == <<DL, PL(s), DU>>

storageVolCreateXMLLocks(s) ==
    IF s = 0 THEN Prog(virStoragePoolObjFromStoragePoolLocks(0), <<>>)
    ELSE Prog(virStoragePoolObjFromStoragePoolLocks(s)
                  \o <<BE(s, "createVol")>>
                  \o storageVolCreateXMLUnlock(s)
                  \o <<BUILD(s, "buildVol")>>
                  \o storageVolCreateXMLRelock(s)
                  \o <<PU(s)>>,
              <<PU(s)>>)

\* s: the target pool; other: the source volume is of a pool of another
\* name; o: that pool, 0 when it is not found
storageVolCreateXMLFromLookup(s, other, o) ==
    <<DL>>
    \o (IF s = 0 THEN <<>>
        ELSE <<PL(s)>>
             \o (IF other
                 THEN <<PU(s)>> \o (IF o = 0 THEN <<>> ELSE <<PL(o)>>)
                      \o <<PL(s)>>
                 ELSE <<>>))
    \o <<DU>>

storageVolCreateXMLFromUnlock(s, o) ==
    <<MARK, PU(s)>> \o (IF o = 0 THEN <<>> ELSE <<PU(o)>>)

storageVolCreateXMLFromRelockNoDriver(s, o) ==
    <<PL(s)>> \o (IF o = 0 THEN <<>> ELSE <<PL(o)>>)

storageVolCreateXMLFromRelock(s, o) ==
    <<DL, PL(s)>> \o (IF o = 0 THEN <<>> ELSE <<PL(o)>>) \o <<DU>>

storageVolCreateXMLFromLocks(s, other, o) ==
    IF s = 0 THEN Prog(storageVolCreateXMLFromLookup(0, other, o), <<>>)
    ELSE IF other /\ o = 0
    THEN Prog(storageVolCreateXMLFromLookup(s, other, o) \o <<PU(s)>>, <<>>)
    ELSE Prog(storageVolCreateXMLFromLookup(s, other, o)
                  \o <<BE(s, "createVol")>>
                  \o storageVolCreateXMLFromUnlock(s, o)
                  \o <<BUILD(s, "buildVolFrom")>>
                  \o storageVolCreateXMLFromRelock(s, o)
                  \o (IF o = 0 THEN <<>> ELSE <<PU(o)>>)
                  \o <<PU(s)>>,
              <<PU(s)>> \o (IF o = 0 THEN <<>> ELSE <<PU(o)>>))

\* virStoragePoolObjSaveDef, whose failure sends the handler to cleanup
SAVE(s) == [k |-> "saveDef", s |-> s, fn |-> ""]
\* virStoragePoolObjRemove
REMOVE(s) == [k |-> "remove", s |-> s, fn |-> ""]

\* s: the pool object that has the name and UUID of the definition, 0 when
\* the definition does not parse.  virStoragePoolObjAssignDef hands the
\* pool back locked; after a failed save the pool is removed, and cleanup
\* unlocks what the local variable pool still points to.
storagePoolDefineXMLLocks(s) ==
    IF s = 0 THEN Prog(<<DL, DU>>, <<>>)
    ELSE Prog(<<DL, PL(s), SAVE(s), PU(s), DU>>,
              <<REMOVE(s), PU(s), DU>>)

LockedOps ==
    {"storagePoolCreate", "storageVolDelete",
     "storagePoolDestroy", "storagePoolRefresh", "storageVolLookupByKey",
     "storageVolCreateXML", "storageVolCreateXMLFrom"}

\* h: handle of the pool of the call; vh: handle of the source volume
LockSteps(op, h, vh) ==
    LET s == virStoragePoolObjFindByUUID(h.uuid)
        other == h.name # vh.pool
        o == IF other THEN virStoragePoolObjFindByName(vh.pool) ELSE 0
    IN CASE op = "storagePoolCreate" -> storagePoolCreateLocks(s)
         [] op = "storageVolDelete" -> storageVolDeleteLocks(s)
         [] op = "storagePoolDestroy" -> storagePoolDestroyLocks(s)
         [] op = "storagePoolRefresh" -> storagePoolRefreshLocks(s)
         [] op = "storageVolLookupByKey" -> storageVolLookupByKeyLocks
         [] op = "storageVolCreateXML" -> storageVolCreateXMLLocks(s)
         [] op = "storagePoolDefineXML" -> storagePoolDefineXMLLocks(s)
         [] op = "storageVolCreateXMLFrom" ->
                storageVolCreateXMLFromLocks(s, other, o)

\* held: the locks the thread holds, oldest first (0: the driver lock);
\* first: the order in which the call first held two pool locks
Idle == [op |-> "", pool |-> 0, orig |-> 0, todo |-> <<>>, cleanup |-> <<>>,
         held |-> <<>>, first |-> <<>>, marked |-> FALSE]

Without(seq, x) == SelectSeq(seq, LAMBDA y : y # x)
PoolLocksOf(held) == Without(held, 0)

\* the thread goes on with r; with nothing left to do the call has returned
Advance(t, r) ==
    thr' = [thr EXCEPT ![t] = IF Tail(r.todo) = <<>> THEN Idle
                              ELSE [r EXCEPT !.todo = Tail(@)]]

LockFrame == UNCHANGED <<pools, jobs, res, chain>>

Running(t) == thr[t].op # ""
NextStep(t) == Head(thr[t].todo)
At(t, k) == Running(t) /\ NextStep(t).k = k

EnterCall(t, op, h, vh) ==
    /\ ~Running(t)
    /\ LET g == LockSteps(op, h, vh)
           s == virStoragePoolObjFindByUUID(h.uuid)
       IN thr' = [thr EXCEPT ![t] =
                     [Idle EXCEPT !.op = op, !.pool = s,
                                  !.orig = IF op = "storageVolCreateXMLFrom"
                                              /\ h.name # vh.pool
                                           THEN virStoragePoolObjFindByName(vh.pool)
                                           ELSE 0,
                                  !.todo = g.todo, !.cleanup = g.cleanup]]
    /\ UNCHANGED <<driverLock, objLock>>
    /\ LockFrame

storageDriverLock(t) ==
    /\ At(t, "storageDriverLock")
    /\ driverLock = 0
    /\ driverLock' = t
    /\ Advance(t, [thr[t] EXCEPT !.held = Append(@, 0)])
    /\ UNCHANGED objLock
    /\ LockFrame

storageDriverUnlock(t) ==
    /\ At(t, "storageDriverUnlock")
    /\ driverLock' = 0
    /\ Advance(t, [thr[t] EXCEPT !.held = Without(@, 0)])
    /\ UNCHANGED objLock
    /\ LockFrame

virStoragePoolObjLock(t) ==
    /\ At(t, "virStoragePoolObjLock")
    /\ LET s == NextStep(t).s
           held == Append(thr[t].held, s)
       IN /\ objLock[s] = 0
          /\ objLock' = [objLock EXCEPT ![s] = t]
          /\ Advance(t, [thr[t] EXCEPT
                            !.held = held,
                            !.first = IF @ = <<>> /\ Len(PoolLocksOf(held)) = 2
                                      THEN PoolLocksOf(held) ELSE @])
    /\ UNCHANGED driverLock
    /\ LockFrame

virStoragePoolObjUnlock(t) ==
    /\ At(t, "virStoragePoolObjUnlock")
    /\ LET s == NextStep(t).s
       IN /\ objLock' = [objLock EXCEPT ![s] = 0]
          /\ Advance(t, [thr[t] EXCEPT !.held = Without(@, s)])
    /\ UNCHANGED driverLock
    /\ LockFrame

\* a failed backend call: goto cleanup
GotoCleanup(t) ==
    thr' = [thr EXCEPT ![t].todo = thr[t].cleanup]

\* the backend function returns
BackendCall(t, ok) ==
    /\ At(t, "backend")
    /\ IF ok THEN Advance(t, thr[t]) ELSE GotoCleanup(t)
    /\ UNCHANGED <<driverLock, objLock>>
    /\ LockFrame

MarkBuilding(t) ==
    /\ At(t, "mark")
    /\ Advance(t, [thr[t] EXCEPT !.marked = TRUE])
    /\ UNCHANGED <<driverLock, objLock>>
    /\ LockFrame

\* backend->buildVol / buildVolFrom returns
BuildCall(t) ==
    /\ At(t, "build")
    /\ Advance(t, thr[t])
    /\ UNCHANGED <<driverLock, objLock>>
    /\ LockFrame

\* virStoragePoolObjSaveDef returns
virStoragePoolObjSaveDef(t, ok) ==
    /\ At(t, "saveDef")
    /\ IF ok THEN Advance(t, thr[t]) ELSE GotoCleanup(t)
    /\ UNCHANGED <<driverLock, objLock>>
    /\ LockFrame

\* the call of virStoragePoolObjRemove: the pool is unlocked, taken out of
\* the store and freed
RemovePool(t) ==
    /\ At(t, "remove")
    /\ LET s == NextStep(t).s
       IN /\ objLock' = [objLock EXCEPT ![s] = 0]
          /\ pools' = virStoragePoolObjRemove(pools, s)
          /\ Advance(t, [thr[t] EXCEPT !.held = Without(@, s)])
    /\ UNCHANGED <<driverLock, jobs, res, chain>>

(***************************************************************************)
(* Specifications                                                          *)
(***************************************************************************)
NoChain == [pc |-> "idle"]

\* no API call under way
NoLocks ==
    /\ driverLock = 0
    /\ objLock = [s \in Slots |-> 0]
    /\ thr = [t \in Threads |-> Idle]

Init ==
    /\ pools = [s \in Slots |-> NoPool]
    /\ jobs = {}
    /\ res = NoRes
    /\ chain = NoChain
    /\ NoLocks

\* the pools the volume operations are exercised on
VolPoolDefs == {PoolDef("p1", "u1", "fs", "a"), PoolDef("p1", "u1", "disk", "a")}

VolSizes == {<<2, 1>>}
VolDefs == {VolDesc(n, z[1], z[2]) : n \in VolNames, z \in VolSizes}
VolHandles == [pool : {d.name : d \in VolPoolDefs}, name : VolNames]

\* the caller has taken the result; the next API call starts from a clean
\* error state (virResetLastError)
virResetLastError ==
    /\ res # NoRes
    /\ res' = NoRes
    /\ UNCHANGED <<pools, jobs, chain, lockvars>>

\* what is needed to bring a pool up, to empty it and to rescan it
PoolStartStop(Defs) ==
    \/ \E d \in Defs, a, b \in BOOLEAN, f \in Discoveries :
           storagePoolCreateXML(d, a, b, f)
    \/ \E d \in Defs, a \in BOOLEAN : storagePoolDestroy(d.uuid, a)
    \/ \E d \in Defs, a \in BOOLEAN, f \in Discoveries :
           storagePoolRefresh(d.uuid, a, f)

PoolOps(Defs) ==
    \/ \E d \in Defs, a, b \in BOOLEAN, f \in Discoveries :
           storagePoolCreateXML(d, a, b, f)
    \/ \E d \in Defs, a \in BOOLEAN : storagePoolDefineXML(d, a)
    \/ \E d \in Defs, a \in BOOLEAN : storagePoolUndefine(d.uuid, a)
    \/ \E d \in Defs, a, b \in BOOLEAN, f \in Discoveries :
           storagePoolCreate(d.uuid, a, b, f)
    \/ \E d \in Defs, a \in BOOLEAN : storagePoolDestroy(d.uuid, a)
    \/ \E d \in Defs, a \in BOOLEAN, f \in Discoveries :
           storagePoolRefresh(d.uuid, a, f)
    \/ \E d \in Defs, a \in BOOLEAN : storagePoolBuild(d.uuid, a)
    \/ \E d \in Defs, a \in BOOLEAN : storagePoolDelete(d.uuid, a)

VolPoolHandles == {[name |-> d.name, uuid |-> d.uuid] : d \in VolPoolDefs}

\* (capacity, flags) of the resize requests
ResizeRequests ==
    {<<0, {}>>, <<1, {}>>, <<1, {"SHRINK"}>>, <<3, {}>>, <<3, {"ALLOCATE"}>>,
     <<1, {"DELTA"}>>, <<0, {"OTHER"}>>}

VolOps ==
    \/ \E d \in VolPoolHandles, vd \in VolDefs, a \in BOOLEAN :
           storageVolCreateXML(d.uuid, vd, a)
    \/ \E j \in jobs, a, b \in BOOLEAN : storageVolCreateXMLBuilt(j, a, b)
    \/ \E d \in VolPoolHandles, h \in VolHandles, vd \in VolDefs,
          a, b, c \in BOOLEAN :
           storageVolCreateXMLFrom(d, h, vd, a, b, c)
    \/ \E j \in jobs, a, b \in BOOLEAN : storageVolCreateXMLFromBuilt(j, a, b)
    \/ \E h \in VolHandles, a \in BOOLEAN : storageVolDelete(h.pool, h.name, a)
    \/ \E h \in VolHandles, a, b \in BOOLEAN :
           storageVolUpload(h.pool, h.name, a, b)
    \/ \E h \in VolHandles, a, b, c \in BOOLEAN :
           storageVolWipePattern(h.pool, h.name, a, b, c)
    \/ \E h \in VolHandles, r \in ResizeRequests, a \in BOOLEAN :
           storageVolResize(h.pool, h.name, r[1], r[2], a)
    \/ \E h \in VolHandles, a, b \in BOOLEAN :
           storageVolGetInfo(h.pool, h.name, a, b)

Next == PoolStartStop(VolPoolDefs) \/ VolOps \/ virResetLastError

\* the driver with its volume operations, on the pools of VolPoolDefs
Spec == Init /\ [][Next]_vars

\* the pool lifecycle alone, over every definition of PoolDefs
PoolNext == PoolOps(PoolDefs) \/ virResetLastError

SpecPool == Init /\ [][PoolNext]_vars

\* two pools with volumes copied from one to the other, and the pool
\* operations that have to wait for the copies
ClonePoolDefs == {PoolDef("p1", "u1", "fs", "a"), PoolDef("p2", "u2", "fs", "b")}
ClonePoolHandles == {[name |-> d.name, uuid |-> d.uuid] : d \in ClonePoolDefs}
CloneVolHandles == [pool : {d.name : d \in ClonePoolDefs}, name : VolNames]

CloneNext ==
    \/ \E d \in ClonePoolDefs, a, b \in BOOLEAN, f \in Discoveries :
           storagePoolCreateXML(d, a, b, f)
    \/ \E d \in ClonePoolDefs, a \in BOOLEAN : storagePoolDestroy(d.uuid, a)
    \/ \E d \in ClonePoolDefs, a \in BOOLEAN, f \in Discoveries :
           storagePoolRefresh(d.uuid, a, f)
    \/ \E d \in ClonePoolDefs, a \in BOOLEAN : storagePoolUndefine(d.uuid, a)
    \/ \E d \in ClonePoolDefs, a \in BOOLEAN : storagePoolDelete(d.uuid, a)
    \/ \E d \in ClonePoolHandles, h \in CloneVolHandles, vd \in VolDefs,
          a \in BOOLEAN :
           storageVolCreateXMLFrom(d, h, vd, TRUE, FALSE, a)
    \/ \E j \in jobs, a, b \in BOOLEAN : storageVolCreateXMLFromBuilt(j, a, b)
    \/ virResetLastError

SpecClone == Init /\ [][CloneNext]_vars

\* a walk over every world of ImageWorlds
ChainStart(w) ==
    [pc |-> "idle", backing |-> w.backing, faultAt |-> w.faultAt,
     kind |-> w.kind, allow_probe |-> FALSE, cycle |-> {}, stack |-> <<>>,
     ret |-> 0, err |-> ""]

InitChain ==
    /\ pools = [s \in Slots |-> NoPool]
    /\ jobs = {}
    /\ res = NoRes
    /\ chain \in {ChainStart(w) : w \in ImageWorlds}
    /\ NoLocks

ChainNext ==
    \/ \E p \in BOOLEAN : virStorageFileGetMetadata("QCOW2", p)
    \/ virStorageFileGetMetadataRecurse("QCOW2")
    \/ virStorageFileGetMetadataRecurseReturn
    \/ virStorageFileGetMetadataReturn

SpecChain == InitChain /\ [][ChainNext]_vars

\* the walk is one thread of control: a step that can be taken is taken
SpecWalk ==
    /\ InitChain
    /\ [][ChainNext]_vars
    /\ WF_vars(virStorageFileGetMetadataRecurse("QCOW2"))
    /\ WF_vars(virStorageFileGetMetadataRecurseReturn)
    /\ WF_vars(virStorageFileGetMetadataReturn)

\* walks over chains without faults, every header hinting at the format of
\* its backing store in every way
BackingFormats == {"AUTO", "AUTO_SAFE", "RAW", "QCOW2"}

InitFormat ==
    /\ pools = [s \in Slots |-> NoPool]
    /\ jobs = {}
    /\ res = NoRes
    /\ chain \in {ChainStart(w) : w \in {x \in ImageWorlds : x.faultAt = 0}}
    /\ NoLocks

FormatNext ==
    \/ \E f \in {"NONE", "QCOW2"}, p \in BOOLEAN : virStorageFileGetMetadata(f, p)
    \/ \E h \in BackingFormats : virStorageFileGetMetadataRecurse(h)
    \/ virStorageFileGetMetadataRecurseReturn
    \/ virStorageFileGetMetadataReturn

SpecFormat == InitFormat /\ [][FormatNext]_vars

\* one pool, defined again while volumes are built in it and listed
BuildPoolDefs == {PoolDef("p1", "u1", "fs", "a")}
BuildPoolHandles == {[name |-> d.name, uuid |-> d.uuid] : d \in BuildPoolDefs}
BuildVolHandles == [pool : {d.name : d \in BuildPoolDefs}, name : VolNames]

BuildNext ==
    \/ \E d \in BuildPoolDefs, a, b \in BOOLEAN, f \in Discoveries :
           storagePoolCreateXML(d, a, b, f)
    \/ \E d \in BuildPoolDefs, a \in BOOLEAN : storagePoolDefineXML(d, a)
    \/ \E d \in BuildPoolHandles, vd \in VolDefs, a \in BOOLEAN :
           storageVolCreateXML(d.uuid, vd, a)
    \/ \E j \in jobs, a, b \in BOOLEAN : storageVolCreateXMLBuilt(j, a, b)
    \/ \E d \in BuildPoolHandles, h \in BuildVolHandles, vd \in VolDefs,
          a \in BOOLEAN :
           storageVolCreateXMLFrom(d, h, vd, TRUE, FALSE, a)
    \/ \E j \in jobs, a, b \in BOOLEAN : storageVolCreateXMLFromBuilt(j, a, b)
    \/ \E d \in BuildPoolHandles : storagePoolNumOfVolumes(d.uuid)
    \/ \E d \in BuildPoolHandles : storagePoolListVolumes(d.uuid, MaxVols)
    \/ \E d \in BuildPoolHandles, n \in VolNames :
           storageVolLookupByName(d.uuid, n)
    \/ virResetLastError

SpecBuild == Init /\ [][BuildNext]_vars

\* a fs pool right after storagePoolCreateXML, which found volume v1 in it
StartedPool(d, id) ==
    [NewPoolObj(d) EXCEPT !.active = TRUE, !.capacity = FsCapacity,
                          !.allocation = 1,
                          !.available = USub(FsCapacity, 1),
                          !.volumes = <<NewVol(id, VolDesc("v1", 2, 1))>>]

LockPoolDef(s) ==
    IF s = 1 THEN PoolDef("p1", "u1", "fs", "a") ELSE PoolDef("p2", "u2", "fs", "b")

\* the two pools of ClonePoolDefs are up, a volume in each; "p3" is a pool
\* nobody defined
InitLock ==
    /\ pools = [s \in Slots |-> IF s <= 2 THEN StartedPool(LockPoolDef(s), s)
                                ELSE NoPool]
    /\ jobs = {}
    /\ res = NoRes
    /\ chain = NoChain
    /\ NoLocks

LockPoolHandles == ClonePoolHandles \cup {[name |-> "p3", uuid |-> "u3"]}

LockNext ==
    \/ \E t \in Threads, op \in LockedOps \ {"storageVolCreateXMLFrom"},
          h \in LockPoolHandles :
           EnterCall(t, op, h, [pool |-> h.name, name |-> "v1"])
    \/ \E t \in Threads, h \in LockPoolHandles, vh \in CloneVolHandles :
           /\ vh.pool # h.name
           /\ EnterCall(t, "storageVolCreateXMLFrom", h, vh)
    \/ \E t \in Threads : storageDriverLock(t)
    \/ \E t \in Threads : storageDriverUnlock(t)
    \/ \E t \in Threads : virStoragePoolObjLock(t)
    \/ \E t \in Threads : virStoragePoolObjUnlock(t)
    \/ \E t \in Threads, ok \in BOOLEAN : BackendCall(t, ok)
    \/ \E t \in Threads : MarkBuilding(t)
    \/ \E t \in Threads : BuildCall(t)

\* the lock and backend calls of concurrent API calls
SpecLock == InitLock /\ [][LockNext]_vars

\* calls that leave by every way out: lookups that fail, backend and build
\* failures, and a definition that cannot be saved
ExitOps ==
    {"storagePoolDefineXML", "storageVolCreateXML", "storageVolCreateXMLFrom",
     "storageVolLookupByKey"}

ExitNext ==
    \/ \E t \in Threads, op \in ExitOps, h \in LockPoolHandles,
          vh \in CloneVolHandles :
           /\ op = "storageVolCreateXMLFrom" => vh.pool # h.name
           /\ op # "storageVolCreateXMLFrom" => vh = [pool |-> h.name, name |-> "v1"]
           /\ EnterCall(t, op, h, vh)
    \/ \E t \in Threads : storageDriverLock(t)
    \/ \E t \in Threads : storageDriverUnlock(t)
    \/ \E t \in Threads : virStoragePoolObjLock(t)
    \/ \E t \in Threads : virStoragePoolObjUnlock(t)
    \/ \E t \in Threads, ok \in BOOLEAN : BackendCall(t, ok)
    \/ \E t \in Threads : MarkBuilding(t)
    \/ \E t \in Threads : BuildCall(t)
    \/ \E t \in Threads, ok \in BOOLEAN : virStoragePoolObjSaveDef(t, ok)
    \/ \E t \in Threads : RemovePool(t)

SpecExit == InitLock /\ [][ExitNext]_vars

\* volume objects are told apart by their address
VolIdSpace == 1..(MaxPools * MaxVols + MaxJobs)

\* creations and copies in and between the two started pools
LiveNext ==
    \/ \E d \in ClonePoolHandles, vd \in VolDefs, a \in BOOLEAN :
           storageVolCreateXML(d.uuid, vd, a)
    \/ \E j \in jobs, a, b \in BOOLEAN : storageVolCreateXMLBuilt(j, a, b)
    \/ \E d \in ClonePoolHandles, h \in CloneVolHandles, vd \in VolDefs,
          a \in BOOLEAN :
           storageVolCreateXMLFrom(d, h, vd, TRUE, FALSE, a)
    \/ \E j \in jobs, a, b \in BOOLEAN : storageVolCreateXMLFromBuilt(j, a, b)
    \/ virResetLastError

\* the thread that builds volume object id gets to run once its backend
\* call has returned: the relock cannot deadlock, and nothing holds a lock
\* for ever
BuildReturns(id) ==
    \E j \in jobs, a, b \in BOOLEAN :
        /\ j.vol = id
        /\ \/ storageVolCreateXMLBuilt(j, a, b)
           \/ storageVolCreateXMLFromBuilt(j, a, b)

SpecLive ==
    /\ InitLock
    /\ [][LiveNext]_vars
    /\ WF_vars(virResetLastError)
    /\ \A id \in VolIdSpace : SF_vars(BuildReturns(id))

\* the driver started and reloaded between API calls: pools defined, marked
\* for autostart, started and stopped
StartPoolDefs == {PoolDef("p1", "u1", "fs", "a"), PoolDef("p1", "u1", "scsi", "b")}

\* an answer for every pool object; no backend is asked about an empty slot
AutostartWorlds ==
    {w \in [Slots -> AutostartAnswers] :
        \A s \in Slots : pools[s] = NoPool =>
            w[s] = [check |-> "stopped", startOk |-> TRUE, refreshOk |-> TRUE]}

StartNext ==
    \/ \E d \in StartPoolDefs, a \in BOOLEAN : storagePoolDefineXML(d, a)
    \/ \E d \in StartPoolDefs, a, b \in BOOLEAN, f \in Discoveries :
           storagePoolCreateXML(d, a, b, f)
    \/ \E d \in StartPoolDefs, a, b \in BOOLEAN, f \in Discoveries :
           storagePoolCreate(d.uuid, a, b, f)
    \/ \E d \in StartPoolDefs, a \in BOOLEAN : storagePoolDestroy(d.uuid, a)
    \/ \E d \in StartPoolDefs, a, b \in BOOLEAN :
           storagePoolSetAutostart(d.uuid, a, b)
    \/ \E w \in AutostartWorlds, f \in Discoveries :
           storageStateAutoStart(w, f)
    \/ \E w \in AutostartWorlds, f \in Discoveries :
           storageStateReload(w, f)
    \/ virResetLastError

SpecStart == Init /\ [][StartNext]_vars

\* a SCSI host scanned again and again: logical units of every type, and
\* every way their processing can fail
LuKinds ==
    {<<"disk", "none">>, <<"rom", "none">>, <<"tape", "none">>,
     <<"disk", "devtype">>, <<"disk", "blockdev">>, <<"disk", "newlun">>,
     <<"disk", "append">>}

Lu(n, k) == [name |-> n, capacity |-> 2, allocation |-> 1,
             type |-> k[1], fault |-> k[2]]

ScsiScans ==
    {<<>>} \cup {<<Lu("v1", k)>> : k \in LuKinds}
           \cup {<<Lu("v1", k[1]), Lu("v2", k[2])>> : k \in LuKinds \X LuKinds}

ScsiPoolDefs == {PoolDef("p2", "u2", "scsi", "b")}

ScsiNext ==
    \/ \E d \in ScsiPoolDefs, a \in BOOLEAN : storagePoolDefineXML(d, a)
    \/ \E d \in ScsiPoolDefs, a, b \in BOOLEAN, f \in ScsiScans :
           storagePoolCreateXML(d, a, b, f)
    \/ \E d \in ScsiPoolDefs, a, b \in BOOLEAN, f \in ScsiScans :
           storagePoolCreate(d.uuid, a, b, f)
    \/ \E d \in ScsiPoolDefs, a, b \in BOOLEAN :
           storagePoolSetAutostart(d.uuid, a, b)
    \/ \E d \in ScsiPoolDefs, a \in BOOLEAN : storagePoolDestroy(d.uuid, a)
    \/ \E d \in ScsiPoolDefs, a \in BOOLEAN, f \in ScsiScans :
           storagePoolRefresh(d.uuid, a, f)
    \/ \E w \in AutostartWorlds, f \in ScsiScans : storageStateReload(w, f)
    \/ virResetLastError

SpecScsi == Init /\ [][ScsiNext]_vars

\* the state is loaded again while volumes are built in a started pool
InitReload ==
    /\ pools = [s \in Slots |-> IF s = 1 THEN StartedPool(LockPoolDef(s), s)
                                ELSE NoPool]
    /\ jobs = {}
    /\ res = NoRes
    /\ chain = NoChain
    /\ NoLocks

ReloadNext ==
    \/ \E d \in BuildPoolHandles, vd \in VolDefs, a \in BOOLEAN :
           storageVolCreateXML(d.uuid, vd, a)
    \/ \E j \in jobs, a, b \in BOOLEAN : storageVolCreateXMLBuilt(j, a, b)
    \/ \E d \in BuildPoolDefs, a \in BOOLEAN, f \in Discoveries :
           storagePoolRefresh(d.uuid, a, f)
    \/ \E w \in AutostartWorlds, f \in Discoveries : storageStateReload(w, f)
    \/ virResetLastError

SpecReload == InitReload /\ [][ReloadNext]_vars

\* volumes of every size resized and copied inside one started fs pool
Sizes == {z \in (0..MaxCap) \X (0..MaxCap) : z[2] <= z[1]}
SizedVolDefs == {VolDesc("v2", z[1], z[2]) : z \in Sizes}

\* (capacity, flags) of the resize requests, among them deltas that take
\* the sum past the largest unsigned long long
SizeRequests == ((0..MaxCap) \cup {UllMod - 2, UllMod - 1}) \X (SUBSET ResizeFlags)

\* the pool right after storagePoolCreateXML, which found v1 of size z in it
SizedPool(z) ==
    [NewPoolObj(PoolDef("p1", "u1", "fs", "a")) EXCEPT
         !.active = TRUE, !.capacity = FsCapacity, !.allocation = z[2],
         !.available = USub(FsCapacity, z[2]),
         !.volumes = <<NewVol(1, VolDesc("v1", z[1], z[2]))>>]

InitSizes ==
    /\ \E z \in Sizes : pools = [s \in Slots |-> IF s = 1 THEN SizedPool(z)
                                                 ELSE NoPool]
    /\ jobs = {}
    /\ res = NoRes
    /\ chain = NoChain
    /\ NoLocks

SizesNext ==
    \/ \E n \in VolNames, r \in SizeRequests, a \in BOOLEAN :
           storageVolResize("p1", n, r[1], r[2], a)
    \/ \E vd \in SizedVolDefs, a, b \in BOOLEAN :
           storageVolCreateXMLFrom([name |-> "p1", uuid |-> "u1"],
                                   [pool |-> "p1", name |-> "v1"],
                                   vd, TRUE, a, b)
    \/ \E j \in jobs, a, b \in BOOLEAN : storageVolCreateXMLFromBuilt(j, a, b)
    \/ \E a \in BOOLEAN : storageVolDelete("p1", "v2", a)
    \/ virResetLastError

SpecSizes == InitSizes /\ [][SizesNext]_vars

\* a volume is created in the started pool, resized and deleted again;
\* nothing else happens to the pool, and the build of a volume that was
\* created succeeds
RoundTripNext ==
    \/ \E vd \in SizedVolDefs, a \in BOOLEAN : storageVolCreateXML("u1", vd, a)
    \/ \E j \in jobs, b \in BOOLEAN : storageVolCreateXMLBuilt(j, TRUE, b)
    \/ \E r \in ResizeRequests, a \in BOOLEAN :
           storageVolResize("p1", "v2", r[1], r[2], a)
    \/ \E a \in BOOLEAN : storageVolDelete("p1", "v2", a)
    \/ virResetLastError

SpecRoundTrip == InitReload /\ [][RoundTripNext]_vars

\* two pools brought up and taken down, their volumes listed, looked up
\* and worked on all the while
SeenPoolDefs == {PoolDef("p1", "u1", "fs", "a"), PoolDef("p2", "u2", "scsi", "b")}
SeenVolHandles == [pool : {d.name : d \in SeenPoolDefs}, name : {"v1"}]
VolKeys == {d.source : d \in SeenPoolDefs} \X {"v1"}

SeenNext ==
    \/ \E d \in SeenPoolDefs, a \in BOOLEAN : storagePoolDefineXML(d, a)
    \/ \E d \in SeenPoolDefs, a, b \in BOOLEAN, f \in Discoveries :
           storagePoolCreate(d.uuid, a, b, f)
    \/ \E d \in SeenPoolDefs, a \in BOOLEAN : storagePoolDestroy(d.uuid, a)
    \/ \E d \in SeenPoolDefs, a \in BOOLEAN, f \in Discoveries :
           storagePoolRefresh(d.uuid, a, f)
    \/ \E d \in SeenPoolDefs : storagePoolNumOfVolumes(d.uuid)
    \/ \E d \in SeenPoolDefs : storagePoolListVolumes(d.uuid, MaxVols)
    \/ \E d \in SeenPoolDefs, a \in BOOLEAN :
           storagePoolListAllVolumes(d.uuid, a)
    \/ \E d \in SeenPoolDefs : storageVolLookupByName(d.uuid, "v1")
    \/ \E k \in VolKeys : storageVolLookupByKey(k)
    \/ \E k \in VolKeys, u \in SUBSET Slots : storageVolLookupByPath(k, u)
    \/ \E h \in SeenVolHandles, a \in BOOLEAN :
           storageVolDelete(h.pool, h.name, a)
    \/ \E h \in SeenVolHandles, a, b \in BOOLEAN :
           storageVolUpload(h.pool, h.name, a, b)
    \/ \E h \in SeenVolHandles, a, b, c \in BOOLEAN :
           storageVolWipePattern(h.pool, h.name, a, b, c)
    \/ \E h \in SeenVolHandles, r \in ResizeRequests, a \in BOOLEAN :
           storageVolResize(h.pool, h.name, r[1], r[2], a)
    \/ \E h \in SeenVolHandles, a, b \in BOOLEAN :
           storageVolGetInfo(h.pool, h.name, a, b)
    \/ virResetLastError

SpecSeen == Init /\ [][SeenNext]_vars

(***************************************************************************)
(* C1: the store never holds two live pools of one name, nor two of one    *)
(* UUID, whatever the interleaving of define, create, start, destroy,      *)
(* refresh and undefine.                                                   *)
(***************************************************************************)
PoolIdentityUnique ==
    \A s, t \in Live :
        s # t => pools[s].name # pools[t].name /\ pools[s].uuid # pools[t].uuid

\* two pools live, and a definition clashing with one of them was refused
PoolIdentityWitness ==
    /\ Cardinality(Live) = 2
    /\ res.op \in {"storagePoolDefineXML", "storagePoolCreateXML"}
    /\ res.err = "OPERATION_FAILED"

(***************************************************************************)
(* C2: while a volume's in_use count is above 0, storageVolDelete,         *)
(* storageVolResize, storageVolWipePattern and storageVolUpload on it fail *)
(* with the invalid-state error, call no backend function and leave the    *)
(* records alone.  As stated for every call (InUseAlwaysInvalidState) it   *)
(* does not hold: flags outside the accepted mask and a wipe algorithm     *)
(* past the last one are refused with the invalid-argument error before    *)
(* the volume is looked at.  It holds for calls with accepted flags and    *)
(* algorithm (InUseRefused).                                               *)
(***************************************************************************)
InUseVol(h) ==
    LET f == virStorageVolDefFromVol(h.pool, h.name)
    IN f.err = "OK" /\ pools[f.s].volumes[f.i].in_use > 0

GuardedOps ==
    {"storageVolDelete", "storageVolResize", "storageVolWipePattern",
     "storageVolUpload"}

\* one of the four calls on h, its flags and algorithm accepted
AcceptedCall(h) ==
    \/ \E a \in BOOLEAN : storageVolDelete(h.pool, h.name, a)
    \/ \E a \in BOOLEAN : storageVolUpload(h.pool, h.name, FALSE, a)
    \/ \E a \in BOOLEAN : storageVolWipePattern(h.pool, h.name, FALSE, FALSE, a)
    \/ \E r \in ResizeRequests, a \in BOOLEAN :
           /\ r[2] \subseteq ResizeFlags
           /\ storageVolResize(h.pool, h.name, r[1], r[2], a)

InUseRefused ==
    [][\A h \in VolHandles :
           (res'.op \in GuardedOps /\ InUseVol(h) /\ AcceptedCall(h))
               => /\ res'.err = "OPERATION_INVALID"
                  /\ res'.calls = <<>>
                  /\ pools' = pools]_vars

InUseAlwaysInvalidState ==
    [][\A h \in VolHandles :
           /\ InUseVol(h)
           /\ res = NoRes
           /\ res' # NoRes
           /\ res'.op \in GuardedOps
           /\ res'.pool = h.pool
           /\ res'.vol = h.name
           => res'.err = "OPERATION_INVALID" /\ res'.calls = <<>>]_vars

\* a delete was refused for a volume that is being copied from
InUseRefusedWitness ==
    /\ res.op = "storageVolDelete"
    /\ res.err = "OPERATION_INVALID"
    /\ \E h \in VolHandles :
           /\ h.pool = res.pool
           /\ h.name = res.vol
           /\ InUseVol(h)
           /\ ~pools[virStorageVolDefFromVol(h.pool, h.name).s]
                  .volumes[virStorageVolDefFromVol(h.pool, h.name).i].building

(***************************************************************************)
(* C3: when the backend build (buildVol of storageVolCreateXML,            *)
(* buildVolFrom of storageVolCreateXMLFrom) fails, the call returns with   *)
(* the new volume gone from the pool's volume list and with the pool's     *)
(* allocation and available as they were.  The accounting part holds; the  *)
(* volume stays in the list when the deleteVol of the rollback fails, or   *)
(* when the backend has none, because the result of                        *)
(* storageVolDeleteInternal is not looked at.                              *)
(***************************************************************************)
\* the step from the relock to the return of job j, the build having failed
BuildFailed(j) ==
    /\ pools[j.pool] # NoPool
    /\ \E b \in BOOLEAN : \/ storageVolCreateXMLBuilt(j, FALSE, b)
                          \/ storageVolCreateXMLFromBuilt(j, FALSE, b)

BuildFailureRollsBack ==
    [][\A j \in jobs :
           BuildFailed(j)
               => /\ VolIndexOf(pools', j.pool, j.vol) = 0
                  /\ pools'[j.pool].allocation = pools[j.pool].allocation
                  /\ pools'[j.pool].available = pools[j.pool].available]_vars

(***************************************************************************)
(* C4: a walk that comes upon a source whose identity is already in the    *)
(* visited set (A naming itself, or a longer cycle) fails as a whole with  *)
(* the self-referential error.  The walk does stop there, and the error is *)
(* reported, but only a recursive call can find an identity in the set,    *)
(* and the caller of a failed recursive call returns success.              *)
(***************************************************************************)
CycleFailsCall ==
    (chain.pc = "done" /\ chain.err = "SELF_REFERENTIAL") => chain.ret < 0

(***************************************************************************)
(* C5: for the chain A -> B -> C in which the access check of B fails,     *)
(* the walk from A reports success.  As stated, with A.backingStore = B    *)
(* and B.backingStore none afterwards (AccessFailureKeepsSource), it does  *)
(* not hold: the source made for B is freed and A is left without a        *)
(* backingStore (AccessFailureDropsSource).                                *)
(***************************************************************************)
\* image 1 is A, 2 is B, 3 is C
BrokenAtB ==
    /\ chain.pc = "done"
    /\ chain.backing[1] = 2
    /\ chain.backing[2] = 3
    /\ chain.backing[3] = 0
    /\ chain.faultAt = 2
    /\ chain.kind = "access"

AccessFailureDropsSource ==
    BrokenAtB => chain.ret = 0 /\ BackingChain(chain.stack[1]) = <<1>>

AccessFailureKeepsSource ==
    BrokenAtB => chain.ret = 0 /\ BackingChain(chain.stack[1]) = <<1, 2>>

\* the walk of that chain has returned, the access error was reported
AccessFailureWitness ==
    BrokenAtB /\ chain.err = "SYSTEM_ERROR" /\ chain.cycle = {}

(***************************************************************************)
(* C6: every successful storageVolDelete takes the deleted volume's        *)
(* recorded allocation off the pool's allocation and adds it to the        *)
(* pool's available, the differences being those of unsigned long long     *)
(* arithmetic: allocation_before - allocation_after = available_after -    *)
(* available_before = vol.allocation.                                      *)
(***************************************************************************)
VolDeleteAccounting ==
    [][\A h \in VolHandles :
           (/\ res'.op = "storageVolDelete"
            /\ res'.err = "OK"
            /\ \E a \in BOOLEAN : storageVolDelete(h.pool, h.name, a))
               => LET f == virStorageVolDefFromVol(h.pool, h.name)
                      v == pools[f.s].volumes[f.i]
                  IN /\ USub(pools[f.s].allocation, pools'[f.s].allocation)
                            = v.allocation
                     /\ USub(pools'[f.s].available, pools[f.s].available)
                            = v.allocation
                     /\ VolIndexOf(pools', f.s, v.id) = 0]_vars

\* a volume was deleted from a pool of two, and the pool's accounting is
\* that of the volume left
VolDeleteWitness ==
    /\ res.op = "storageVolDelete"
    /\ res.err = "OK"
    /\ res.calls = <<"deleteVol">>
    /\ \E s \in Live :
           /\ pools[s].name = res.pool
           /\ Len(pools[s].volumes) = 1
           /\ pools[s].volumes[1].name # res.vol
           /\ pools[s].allocation = pools[s].volumes[1].allocation
           /\ pools[s].available = pools[s].capacity - pools[s].allocation

(***************************************************************************)
(* C7: a successful storageVolCreateXML or storageVolCreateXMLFrom adds    *)
(* the new volume's allocation to the pool's allocation, takes the same    *)
(* off the pool's available, and changes nothing else of the pool's        *)
(* accounting.  The new volume's allocation is the one on record when the  *)
(* call returns, which is what a later delete gives back.                  *)
(***************************************************************************)
\* the accounting of pool s went from that of p by the allocation of the
\* volume the step leaves on record under id
AccountedFor(p, ps, s, id) ==
    LET i == VolIndexOf(ps, s, id)
    IN /\ i # 0
       /\ USub(ps[s].allocation, p.allocation) = ps[s].volumes[i].allocation
       /\ USub(p.available, ps[s].available) = ps[s].volumes[i].allocation
       /\ ps[s].capacity = p.capacity

VolCreateAccounting ==
    [][\A j \in jobs :
           (/\ pools[j.pool] # NoPool
            /\ \E b \in BOOLEAN : \/ storageVolCreateXMLBuilt(j, TRUE, b)
                                  \/ storageVolCreateXMLFromBuilt(j, TRUE, b))
               => AccountedFor(pools[j.pool], pools', j.pool, j.vol)]_vars

(***************************************************************************)
(* C8: a successful storageVolResize moves the pool's allocation and       *)
(* available by the change of the volume's allocation; with ALLOCATE the   *)
(* pool's allocation grows, and its available shrinks, by the new          *)
(* allocation less the old.                                                *)
(***************************************************************************)
VolResizeAccounting ==
    [][\A h \in VolHandles, r \in ResizeRequests :
           (/\ res'.op = "storageVolResize"
            /\ res'.err = "OK"
            /\ storageVolResize(h.pool, h.name, r[1], r[2], TRUE))
               => LET f == virStorageVolDefFromVol(h.pool, h.name)
                      before == pools[f.s].volumes[f.i].allocation
                      after == pools'[f.s].volumes[f.i].allocation
                  IN /\ USub(pools'[f.s].allocation, pools[f.s].allocation)
                            = USub(after, before)
                     /\ USub(pools[f.s].available, pools'[f.s].available)
                            = USub(after, before)]_vars

(***************************************************************************)
(* C9: storagePoolUndefine on an active pool fails with the invalid-state  *)
(* error and leaves the pool in the store, active; after a successful      *)
(* storagePoolDestroy a persistent pool is in the store, inactive and      *)
(* without jobs, and storagePoolUndefine on such a pool succeeds, no pool  *)
(* of its name or UUID being found afterwards.  As stated, for every       *)
(* undefine (UndefineAfterDestroyAlways), the second part does not hold:   *)
(* the undefine fails, and the pool stays, when the pool's config file     *)
(* cannot be deleted.  It holds when that deletion succeeds                *)
(* (UndefineAfterDestroy).                                                 *)
(***************************************************************************)
\* pool s is what a successful destroy of a persistent pool leaves
Destroyed(ps, s) ==
    /\ ps[s] # NoPool
    /\ ~ps[s].active
    /\ ps[s].persistent
    /\ ps[s].asyncjobs = 0

Gone(ps, name, uuid) ==
    \A t \in Slots : ps[t] = NoPool \/ (ps[t].name # name /\ ps[t].uuid # uuid)

UndefineOfActiveRefused(d) ==
    LET s == virStoragePoolObjFindByUUID(d.uuid)
    IN (/\ s # 0
        /\ virStoragePoolObjIsActive(s)
        /\ \E a \in BOOLEAN : storagePoolUndefine(d.uuid, a))
           => res'.err = "OPERATION_INVALID" /\ pools' = pools

DestroyLeavesInactive(d) ==
    LET s == virStoragePoolObjFindByUUID(d.uuid)
    IN (/\ s # 0
        /\ pools[s].persistent
        /\ \E a \in BOOLEAN : storagePoolDestroy(d.uuid, a)
        /\ res'.err = "OK")
           => Destroyed(pools', s)

UndefineAfterDestroy ==
    [][\A d \in PoolDefs :
           /\ UndefineOfActiveRefused(d)
           /\ DestroyLeavesInactive(d)
           /\ LET s == virStoragePoolObjFindByUUID(d.uuid)
              IN (/\ s # 0
                  /\ Destroyed(pools, s)
                  /\ storagePoolUndefine(d.uuid, TRUE))
                     => /\ res'.err = "OK"
                        /\ Gone(pools', pools[s].name, pools[s].uuid)]_vars

UndefineAfterDestroyAlways ==
    [][\A d \in PoolDefs :
           /\ UndefineOfActiveRefused(d)
           /\ DestroyLeavesInactive(d)
           /\ LET s == virStoragePoolObjFindByUUID(d.uuid)
              IN (/\ s # 0
                  /\ Destroyed(pools, s)
                  /\ \E a \in BOOLEAN : storagePoolUndefine(d.uuid, a))
                     => /\ res'.err = "OK"
                        /\ Gone(pools', pools[s].name, pools[s].uuid)]_vars

\* an undefine has removed a pool, and another pool is still active
UndefineWitness ==
    /\ res.op = "storagePoolUndefine"
    /\ res.err = "OK"
    /\ virStoragePoolObjFindByUUID(res.pool) = 0
    /\ \E s \in Live : pools[s].active /\ pools[s].persistent

(***************************************************************************)
(* C10: storageVolResize on an idle volume to a capacity below the         *)
(* volume's allocation fails with the invalid-argument error; below its    *)
(* capacity without SHRINK it fails with the invalid-argument error; with  *)
(* SHRINK and a capacity of at least the allocation it succeeds and makes  *)
(* that the volume's capacity; a failing call leaves volume and pool as    *)
(* they were.  As stated (ShrinkAlwaysSucceeds) the success does not hold: *)
(* it takes a backend with resizeVol, that call succeeding, and a capacity *)
(* within the volume's capacity plus the pool's available (ShrinkRules).   *)
(***************************************************************************)
IdleVol(h) ==
    LET f == virStorageVolDefFromVol(h.pool, h.name)
    IN f.err = "OK" /\ VolBusy(pools[f.s].volumes[f.i]) = "OK"

\* the two refusals, for the request r on the volume of h
ShrinkRefusals(h, r) ==
    LET f == virStorageVolDefFromVol(h.pool, h.name)
        v == pools[f.s].volumes[f.i]
        abs == AbsCapacity(v, r[1], r[2])
    IN (abs < v.allocation \/ (abs < v.capacity /\ "SHRINK" \notin r[2]))
           => res'.err = "INVALID_ARG" /\ pools' = pools

ShrinkRules ==
    [][\A h \in VolHandles, r \in ResizeRequests, ok \in BOOLEAN :
           (/\ res'.op = "storageVolResize"
            /\ r[2] \subseteq ResizeFlags
            /\ IdleVol(h)
            /\ storageVolResize(h.pool, h.name, r[1], r[2], ok))
               => LET f == virStorageVolDefFromVol(h.pool, h.name)
                      p == pools[f.s]
                      v == p.volumes[f.i]
                      abs == AbsCapacity(v, r[1], r[2])
                      can == /\ Has(p.type, "resizeVol")
                             /\ ok
                             /\ abs <= UAdd(v.capacity, p.available)
                  IN /\ ShrinkRefusals(h, r)
                     /\ ("SHRINK" \in r[2] /\ abs >= v.allocation)
                            => IF can
                               THEN /\ res'.err = "OK"
                                    /\ pools'[f.s].volumes[f.i].capacity = abs
                               ELSE /\ res'.err # "OK"
                                    /\ pools' = pools]_vars

ShrinkAlwaysSucceeds ==
    [][\A h \in VolHandles, r \in ResizeRequests, ok \in BOOLEAN :
           (/\ res'.op = "storageVolResize"
            /\ r[2] \subseteq ResizeFlags
            /\ IdleVol(h)
            /\ storageVolResize(h.pool, h.name, r[1], r[2], ok))
               => LET f == virStorageVolDefFromVol(h.pool, h.name)
                      v == pools[f.s].volumes[f.i]
                      abs == AbsCapacity(v, r[1], r[2])
                  IN /\ ShrinkRefusals(h, r)
                     /\ ("SHRINK" \in r[2] /\ abs >= v.allocation)
                            => /\ res'.err = "OK"
                               /\ pools'[f.s].volumes[f.i].capacity = abs]_vars

\* a volume defined with capacity 2 has been resized down to 1
ShrinkWitness ==
    /\ res.op = "storageVolResize"
    /\ res.err = "OK"
    /\ res.calls = <<"resizeVol">>
    /\ \E s \in Live :
           /\ pools[s].name = res.pool
           /\ \E i \in 1..Len(pools[s].volumes) :
                  /\ pools[s].volumes[i].name = res.vol
                  /\ pools[s].volumes[i].capacity = 1

(***************************************************************************)
(* C11: when the refreshPool of storagePoolRefresh fails, the call fails   *)
(* and the pool is inactive afterwards: a transient pool (no config file)  *)
(* is out of the store, not found by name or UUID; a persistent pool stays *)
(* in the store, inactive.                                                 *)
(***************************************************************************)
RefreshFailureDeactivates ==
    [][\A d \in PoolDefs, f \in Discoveries :
           LET s == virStoragePoolObjFindByUUID(d.uuid)
           IN (/\ res'.op = "storagePoolRefresh"
               /\ s # 0
               /\ storagePoolNeedsActiveIdle(s) = "OK"
               /\ storagePoolRefresh(d.uuid, FALSE, f))
                  => /\ res'.err # "OK"
                     /\ IF pools[s].persistent
                        THEN /\ pools'[s] # NoPool
                             /\ pools'[s].name = pools[s].name
                             /\ pools'[s].uuid = pools[s].uuid
                             /\ ~pools'[s].active
                        ELSE Gone(pools', pools[s].name, pools[s].uuid)]_vars

\* a refresh has failed in the backend; its persistent pool is still found,
\* inactive
RefreshFailureWitness ==
    /\ res.op = "storagePoolRefresh"
    /\ res.err = "BACKEND"
    /\ virStoragePoolObjFindByUUID(res.pool) # 0
    /\ ~pools[virStoragePoolObjFindByUUID(res.pool)].active
    /\ pools[virStoragePoolObjFindByUUID(res.pool)].persistent

(***************************************************************************)
(* C12: while a pool has asyncjobs > 0, storagePoolDestroy,                *)
(* storagePoolUndefine, storagePoolDelete and storagePoolRefresh on it     *)
(* fail, call no backend function and change nothing; so for the pool a    *)
(* volume is built in and for the pool a volume is copied from.            *)
(***************************************************************************)
PoolGatedOps ==
    {"storagePoolDestroy", "storagePoolUndefine", "storagePoolDelete",
     "storagePoolRefresh"}

AsyncJobsGate ==
    [][\A d \in ClonePoolDefs :
           LET s == virStoragePoolObjFindByUUID(d.uuid)
           IN (/\ res = NoRes
               /\ res'.op \in PoolGatedOps
               /\ res'.pool = d.uuid
               /\ s # 0
               /\ pools[s].asyncjobs > 0)
                  => /\ res'.err # "OK"
                     /\ res'.calls = <<>>
                     /\ pools' = pools
                     /\ jobs' = jobs]_vars

\* a destroy was refused for the pool a copy in flight reads from
AsyncJobsGateWitness ==
    /\ res.op = "storagePoolDestroy"
    /\ res.err = "INTERNAL_ERROR"
    /\ \E j \in jobs :
           /\ j.origpool # 0
           /\ pools[j.origpool] # NoPool
           /\ pools[j.origpool].uuid = res.pool
           /\ pools[j.origpool].asyncjobs > 0

(***************************************************************************)
(* C13: an operation that comes to dispatch to an optional backend         *)
(* function the pool's backend does not have reports "operation not        *)
(* supported"; it neither reports success nor calls the function.  Stated  *)
(* here for the pool operations with such a slot, storagePoolBuild         *)
(* (buildPool) and storagePoolDelete (deletePool), on an inactive pool     *)
(* without jobs.  storagePoolBuild returns success when buildPool is       *)
(* missing.                                                                *)
(***************************************************************************)
OptionalSlot(op) ==
    IF op = "storagePoolBuild" THEN "buildPool" ELSE "deletePool"

MissingSlotNotSupported ==
    [][\A d \in PoolDefs :
           LET s == virStoragePoolObjFindByUUID(d.uuid)
           IN (/\ res = NoRes
               /\ res'.op \in {"storagePoolBuild", "storagePoolDelete"}
               /\ res'.pool = d.uuid
               /\ s # 0
               /\ ~virStoragePoolObjIsActive(s)
               /\ pools[s].asyncjobs = 0
               /\ ~Has(pools[s].type, OptionalSlot(res'.op)))
                  => /\ res'.err = "NO_SUPPORT"
                     /\ res'.calls = <<>>]_vars

(***************************************************************************)
(* C14: an operation rejected by an early check (pool or volume not found, *)
(* pool in the wrong state, jobs running, volume in use or being built,    *)
(* backend function missing, resize argument invalid) has called no        *)
(* backend function and leaves everything as it was: the store, each       *)
(* pool's active flag, asyncjobs, volume list and accounting, each         *)
(* volume's in_use, building, capacity and allocation.                     *)
(***************************************************************************)
EarlyErrors ==
    {"NO_STORAGE_POOL", "NO_STORAGE_VOL", "STORAGE_VOL_EXIST",
     "OPERATION_INVALID", "INTERNAL_ERROR", "NO_SUPPORT", "INVALID_ARG",
     "OPERATION_FAILED"}

EarlyRejectionChangesNothing ==
    [][(/\ res = NoRes
        /\ res'.err \in EarlyErrors
        /\ res'.calls = <<>>)
           => pools' = pools /\ jobs' = jobs]_vars

\* a refresh was refused for the pool a volume is being built in, and the
\* volume is still listed, building
EarlyRejectionWitness ==
    /\ res.op = "storagePoolRefresh"
    /\ res.err = "INTERNAL_ERROR"
    /\ \E j \in jobs :
           /\ pools[j.pool] # NoPool
           /\ pools[j.pool].uuid = res.pool
           /\ pools[j.pool].asyncjobs = 1
           /\ VolIndexOf(pools, j.pool, j.vol) # 0
           /\ pools[j.pool].volumes[VolIndexOf(pools, j.pool, j.vol)].building

(***************************************************************************)
(* C15: no thread takes the driver (store) lock while it holds a pool      *)
(* lock; also after a volume build the driver lock comes first, then the   *)
(* pool lock(s).                                                           *)
(***************************************************************************)
HoldsPoolLock(t) == \E s \in Slots : objLock[s] = t

StoreLockBeforePoolLock ==
    [][\A t \in Threads :
           (driverLock # t /\ driverLock' = t) => ~HoldsPoolLock(t)]_vars

\* after its build a thread has the driver lock again and waits for its
\* pool, which another thread holds
StoreLockBeforePoolLockWitness ==
    \E t \in Threads :
        /\ thr[t].marked
        /\ driverLock = t
        /\ At(t, "virStoragePoolObjLock")
        /\ objLock[NextStep(t).s] \notin {0, t}

(***************************************************************************)
(* C16: a thread that locks two pools together takes the two locks in one  *)
(* fixed order: when storageVolCreateXMLFrom holds both pool locks again   *)
(* after the build, it has taken them in the order it took them before     *)
(* the build.                                                              *)
(***************************************************************************)
TwoPoolLockOrderFixed ==
    \A t \in Threads :
        Len(PoolLocksOf(thr[t].held)) = 2
            => PoolLocksOf(thr[t].held) = thr[t].first

(***************************************************************************)
(* C17: whatever calls the threads run, there is never a set of threads    *)
(* each of which waits for a lock held by a thread of the set.             *)
(***************************************************************************)
\* the lock thread t is about to take: 0 the driver lock, s a pool, -1 none
Wants(t) ==
    IF At(t, "storageDriverLock") THEN 0
    ELSE IF At(t, "virStoragePoolObjLock") THEN NextStep(t).s
    ELSE -1

Owner(l) == IF l = 0 THEN driverLock ELSE objLock[l]

WaitsFor(t, u) == Wants(t) # -1 /\ Owner(Wants(t)) = u

BuildRunsUnlocked ==
    \A t \in Threads :
        At(t, "build") => /\ driverLock # t
                          /\ ~HoldsPoolLock(t)
                          /\ thr[t].held = <<>>
                          /\ thr[t].marked

\* a copy between two pools is being built while other threads hold the
\* lock of its pool and the driver lock
BuildRunsUnlockedWitness ==
    \E t \in Threads :
        /\ At(t, "build")
        /\ NextStep(t).fn = "buildVolFrom"
        /\ thr[t].orig # 0
        /\ objLock[thr[t].pool] # 0
        /\ driverLock # 0

(***************************************************************************)
(* C19: while a thread is inside startPool, stopPool, refreshPool,         *)
(* deleteVol, resizeVol or wipeVol for a pool, a call that concerns        *)
(* another pool only does not wait for a lock that thread holds.           *)
(***************************************************************************)
SyncCalls ==
    {"startPool", "stopPool", "refreshPool", "deleteVol", "resizeVol",
     "wipeVol"}

InSyncCall(t) == At(t, "backend") /\ NextStep(t).fn \in SyncCalls

OtherPoolsNotSerialized ==
    \A t, u \in Threads :
        (/\ t # u
         /\ InSyncCall(t)
         /\ Running(u)
         /\ thr[u].op # "storageVolLookupByKey"
         /\ thr[u].pool \notin {0, NextStep(t).s}
         /\ thr[u].orig # NextStep(t).s)
            => ~WaitsFor(u, t)

(***************************************************************************)
(* C20: from the unlock before the build to the relock after it, every     *)
(* storagePoolListVolumes, storagePoolNumOfVolumes and                     *)
(* storageVolLookupByName on the pool by another thread finds the new      *)
(* volume in the pool's list, with building = true.                        *)
(***************************************************************************)
ListingOps ==
    {"storagePoolListVolumes", "storagePoolNumOfVolumes",
     "storageVolLookupByName"}

\* the volume of job j is in the list of its pool, being built
ListedBuilding(j) ==
    /\ pools[j.pool] # NoPool
    /\ VolIndexOf(pools, j.pool, j.vol) # 0
    /\ pools[j.pool].volumes[VolIndexOf(pools, j.pool, j.vol)].building

ListingSeesBuildingVolume ==
    [][\A j \in jobs :
           (/\ res = NoRes
            /\ res'.op \in ListingOps
            /\ res'.pool = j.uuid
            /\ res'.op = "storageVolLookupByName" => res'.vol = j.name)
               => /\ res'.err = "OK"
                  /\ ListedBuilding(j)
                  /\ res'.op = "storagePoolListVolumes"
                        => j.name \in SeqToSet(res'.out)
                  /\ res'.op = "storagePoolNumOfVolumes"
                        => res'.n = Len(pools[j.pool].volumes)]_vars

(***************************************************************************)
(* C21: what a create or a copy set before its build it takes back after   *)
(* it, whether the build succeeded or not: a pool's asyncjobs counts the   *)
(* builds under way in it or from it, a volume is building exactly while   *)
(* its build is under way, a volume's in_use counts the copies being made  *)
(* from it; and a build whose backend call returns is eventually over, so  *)
(* that with no build left every asyncjobs and in_use is 0 and no volume   *)
(* is building.                                                            *)
(***************************************************************************)
JobsOf(s) ==
    Cardinality({j \in jobs : j.pool = s})
        + Cardinality({j \in jobs : j.origpool = s})

CopiesFrom(s, id) ==
    Cardinality({j \in jobs : /\ j.op = "storageVolCreateXMLFrom"
                              /\ (IF j.origpool # 0 THEN j.origpool ELSE j.pool) = s
                              /\ j.origvol = id})

BuildMarksMatch ==
    \A s \in Live :
        /\ pools[s].asyncjobs = JobsOf(s)
        /\ \A i \in 1..Len(pools[s].volumes) :
               LET v == pools[s].volumes[i]
               IN /\ v.building = (\E j \in jobs : j.pool = s /\ j.vol = v.id)
                  /\ v.in_use = CopiesFrom(s, v.id)

UnderBuild(id) == \E j \in jobs : j.vol = id

StartOps == {"storagePoolCreateXML", "storagePoolCreate"}

InCalls(fn, calls) == \E i \in 1..Len(calls) : calls[i] = fn

StartRefreshFailure ==
    [][LET s == virStoragePoolObjFindByUUID(res'.pool)
       IN (/\ res = NoRes
           /\ res'.op \in StartOps
           /\ res'.err = "BACKEND"
           /\ InCalls("refreshPool", res'.calls))
              => /\ \A t \in Slots :
                        (pools'[t] # NoPool /\ pools'[t].uuid = res'.pool)
                            => ~pools'[t].active
                 /\ (s # 0 /\ pools[s].persistent)
                        => /\ pools'[s] # NoPool
                           /\ InCalls("stopPool", res'.calls)
                                  = Has(pools[s].type, "stopPool")
                 /\ (s = 0 \/ ~pools[s].persistent)
                        => \A t \in Slots :
                               pools'[t] = NoPool \/ pools'[t].uuid # res'.pool]_vars

(***************************************************************************)
(* C23: a pool's active flag goes from false to true only in a step in     *)
(* which refreshPool has just succeeded on it: a storagePoolCreateXML or a *)
(* storagePoolCreate that returned success with refreshPool as its last    *)
(* backend call, or a turn of storageDriverAutostart that logged no        *)
(* failure for the pool.  A start whose startPool or refreshPool failed    *)
(* leaves no pool of that identity active.                                 *)
(***************************************************************************)
AutostartOps == {"storageStateAutoStart", "storageStateReload"}

BecomesActive(s) ==
    /\ pools'[s] # NoPool
    /\ pools'[s].active
    /\ pools[s] = NoPool \/ ~pools[s].active

ActiveOnlyAfterRefresh ==
    [][/\ \A s \in Slots : BecomesActive(s) =>
              \/ /\ res'.op \in StartOps
                 /\ res'.pool = pools'[s].uuid
                 /\ res'.err = "OK"
                 /\ res'.calls # <<>>
                 /\ res'.calls[Len(res'.calls)] = "refreshPool"
              \/ /\ res'.op \in AutostartOps
                 /\ ~InCalls(pools'[s].name, res'.out)
       /\ (res'.op \in StartOps /\ res'.err = "BACKEND") =>
              \A s \in Slots : (pools'[s] # NoPool /\ pools'[s].uuid = res'.pool)
                                   => ~pools'[s].active]_vars

\* a reload has started a pool: an active pool with a config file and no
\* staged definition was inactive when its config was loaded
ActiveOnlyAfterRefreshWitness ==
    /\ res.op = "storageStateReload"
    /\ \E s \in Live : /\ pools[s].active
                       /\ pools[s].persistent
                       /\ pools[s].newDef = NoDef

(***************************************************************************)
(* C24: a storagePoolDestroy that returns success found the pool active    *)
(* with no asynchronous job; a transient pool is then gone from the store; *)
(* a persistent pool stays, inactive and with an empty volume list, with   *)
(* no staged definition: the definition that was staged is now its         *)
(* definition, and without a staged one its definition is unchanged.  No   *)
(* other pool is touched.                                                  *)
(***************************************************************************)
DefOf(p) == PoolDef(p.name, p.uuid, p.type, p.source)

DestroyEffect ==
    [][(res'.op = "storagePoolDestroy" /\ res'.err = "OK" /\ res = NoRes) =>
          LET s == virStoragePoolObjFindByUUID(res'.pool)
          IN /\ s # 0
             /\ pools[s].active
             /\ pools[s].asyncjobs = 0
             /\ res'.calls = IF Has(pools[s].type, "stopPool")
                             THEN <<"stopPool">> ELSE <<>>
             /\ ~pools[s].persistent => pools'[s] = NoPool
             /\ pools[s].persistent =>
                    /\ pools'[s] # NoPool
                    /\ pools'[s].volumes = <<>>
                    /\ ~pools'[s].active
                    /\ pools'[s].persistent
                    /\ pools'[s].newDef = NoDef
                    /\ DefOf(pools'[s]) = IF pools[s].newDef # NoDef
                                          THEN pools[s].newDef
                                          ELSE DefOf(pools[s])
             /\ \A t \in Slots \ {s} : pools'[t] = pools[t]]_vars

\* a destroy has returned success and the pool is still there, under the
\* definition that was staged while it ran
DestroyEffectWitness ==
    /\ res.op = "storagePoolDestroy"
    /\ res.err = "OK"
    /\ \E s \in Live : /\ pools[s].uuid = res.pool
                       /\ pools[s].source = "d"
                       /\ ~pools[s].active

(***************************************************************************)
(* C25: in an active pool the allocation never exceeds the capacity and    *)
(* neither allocation nor available wraps around, whatever volumes are     *)
(* created, copied, deleted and resized after the refresh that filled the  *)
(* pool.  A wrapped value shows as one above the capacity.                 *)
(***************************************************************************)
PoolAllocationWithinCapacity ==
    \A s \in Live : pools[s].active =>
        /\ pools[s].allocation <= pools[s].capacity
        /\ pools[s].available <= pools[s].capacity

(***************************************************************************)
(* C26: every volume has capacity >= allocation: no successful             *)
(* storageVolResize, under any combination of the ALLOCATE, DELTA and      *)
(* SHRINK flags, and no size adjustment of storageVolCreateXMLFrom leaves  *)
(* a volume whose allocation is above its capacity, the volumes found in   *)
(* the pool and the definitions handed in having capacity >= allocation.   *)
(***************************************************************************)
CapacityCoversAllocation ==
    \A s \in Live : \A i \in 1..Len(pools[s].volumes) :
        pools[s].volumes[i].capacity >= pools[s].volumes[i].allocation

\* a resize has succeeded on a volume that was made as a copy
CapacityCoversAllocationWitness ==
    /\ res.op = "storageVolResize"
    /\ res.err = "OK"
    /\ res.vol = "v2"
    /\ \E s \in Live : virStorageVolDefFindByName(pools, s, "v2") # 0

(***************************************************************************)
(* C27: no pool's volume list holds two volumes of one name, also across   *)
(* pool refresh, autostart and state reload.                               *)
(***************************************************************************)
VolumeNamesUnique ==
    \A s \in Live : \A i, k \in 1..Len(pools[s].volumes) :
        pools[s].volumes[i].name = pools[s].volumes[k].name => i = k

(***************************************************************************)
(* C28: no volume of an inactive pool is observable.  A listing or lookup  *)
(* addressed to an inactive pool by UUID, and an operation that reaches    *)
(* its volume through virStorageVolDefFromVol, fails without a backend     *)
(* call, hands back no name and no count and changes nothing; a lookup by  *)
(* key or path that succeeds names an active pool.                         *)
(***************************************************************************)
ByUUIDOps == {"storagePoolNumOfVolumes", "storagePoolListVolumes",
              "storagePoolListAllVolumes", "storageVolLookupByName"}
FromVolOps == {"storageVolDelete", "storageVolUpload", "storageVolWipePattern",
               "storageVolResize", "storageVolGetInfo"}
SearchOps == {"storageVolLookupByKey", "storageVolLookupByPath"}

Refused ==
    /\ res'.err \notin {"OK", ""}
    /\ res'.calls = <<>>
    /\ res'.out = <<>>
    /\ res'.n = 0
    /\ pools' = pools

RootFaults == {"init", "access", "identity", "header", "metadata"}

RootFailureFailsCall ==
    (chain.pc = "done" /\ chain.faultAt = 1 /\ chain.kind \in RootFaults)
        => chain.ret < 0

ChildFailureAccepted ==
    (/\ chain.pc = "walking"
     /\ Len(chain.stack) > 1
     /\ Top(chain).stage = "ret"
     /\ Top(chain).ret < 0
     /\ chain' # chain)
        => /\ Len(chain'.stack) = Len(chain.stack) - 1
           /\ Top(chain').img = chain.stack[Len(chain.stack) - 1].img
           /\ Top(chain').stage = "ret"
           /\ Top(chain').ret = 0
           /\ Top(chain').backingStore = <<>>

OnlyRootFailureFailsCall ==
    []RootFailureFailsCall /\ [][ChildFailureAccepted]_vars

\* the header of the third image of a chain could not be read: the call
\* has returned success with the chain cut after the second image
OnlyRootFailureFailsCallWitness ==
    /\ chain.pc = "done"
    /\ chain.faultAt = 3
    /\ chain.kind = "header"
    /\ chain.err # ""
    /\ chain.ret = 0
    /\ BackingChain(Top(chain)) = <<1, 2>>

(***************************************************************************)
(* C30: the format of a backing source is decided by the hinted backing    *)
(* format and allow_probe alone: hint auto without probing gives raw, hint *)
(* auto-safe gives auto, hint auto with probing gives auto, any other hint *)
(* is taken as it is.  So without probing a backing source is given the    *)
(* format auto only when the hint was auto-safe.                           *)
(***************************************************************************)
HintedFormat(hint, allowProbe) ==
    CASE hint = "AUTO" /\ ~allowProbe -> "RAW"
      [] hint = "AUTO_SAFE" -> "AUTO"
      [] hint = "AUTO" /\ allowProbe -> "AUTO"
      [] OTHER -> hint

BackingFormatFromHint ==
    [][(chain.pc = "walking" /\ Len(chain'.stack) = Len(chain.stack) + 1) =>
          /\ \A h \in BackingFormats :
                 virStorageFileGetMetadataRecurse(h) =>
                     /\ Top(chain').format = HintedFormat(h, chain.allow_probe)
                     /\ Top(chain').img = chain.backing[Top(chain).img]
          /\ (~chain.allow_probe /\ Top(chain').format = "AUTO") =>
                 /\ virStorageFileGetMetadataRecurse("AUTO_SAFE")
                 /\ \A h \in BackingFormats \ {"AUTO_SAFE"} :
                        ~virStorageFileGetMetadataRecurse(h)]_vars

\* without probing, the walk has come to a backing source of format auto
BackingFormatFromHintWitness ==
    /\ chain.pc = "walking"
    /\ ~chain.allow_probe
    /\ Len(chain.stack) > 1
    /\ Top(chain).format = "AUTO"

(***************************************************************************)
(* C31: the chain linked through backingStore is acyclic: no two sources   *)
(* of it have the same canonical identity, during the walk and after it,   *)
(* whatever the backing references of the images are, cycles and           *)
(* self-references included.                                               *)
(***************************************************************************)
NoRepeat(seq) == \A i, k \in 1..Len(seq) : seq[i] = seq[k] => i = k

ChainAcyclic ==
    \A i \in 1..Len(chain.stack) : NoRepeat(BackingChain(chain.stack[i]))

\* the call is over on images that name each other: the second is linked,
\* the first is not linked again below it
ChainAcyclicWitness ==
    /\ chain.pc = "done"
    /\ chain.backing[1] = 2
    /\ chain.backing[2] = 1
    /\ chain.err = "SELF_REFERENTIAL"
    /\ BackingChain(Top(chain)) = <<1, 2>>

(***************************************************************************)
(* C32: after a successful refreshPool of a SCSI pool the capacity of the  *)
(* pool is the sum of the capacities, and its allocation the sum of the    *)
(* allocations, of exactly the volumes in its volume list: a unit that is  *)
(* no disk or CD-ROM, or whose processing failed, adds neither a volume    *)
(* nor an amount.                                                          *)
(***************************************************************************)
RECURSIVE SumCapacity(_)
SumCapacity(vols) ==
    IF vols = <<>> THEN 0
    ELSE UAdd(Head(vols).capacity, SumCapacity(Tail(vols)))

RefreshedOk ==
    \/ /\ res.op \in {"storagePoolCreateXML", "storagePoolCreate",
                      "storagePoolRefresh"}
       /\ res.err = "OK"
    \/ /\ res.op \in AutostartOps
       /\ res.out = <<>>

ScsiAccountingFromVolumes ==
    RefreshedOk =>
        \A s \in Live : (pools[s].type = "scsi" /\ pools[s].active) =>
            /\ pools[s].capacity = SumCapacity(pools[s].volumes)
            /\ pools[s].allocation = SumAlloc(pools[s].volumes)

(***************************************************************************)
(* C33: in every state the asyncjobs of a pool is the number of builds     *)
(* and copies between their unlock and their relock that have the pool as  *)
(* target, plus the number of copies from another pool that have it as     *)
(* source; it is never below zero.                                         *)
(***************************************************************************)
BuildsInto(s) == {j \in jobs : j.pool = s}

CopiesOutOf(s) == {j \in jobs : j.op = "storageVolCreateXMLFrom" /\ j.origpool = s}

HasBuild(p) ==
    \/ p.asyncjobs > 0
    \/ \E i \in 1..Len(p.volumes) : p.volumes[i].building

\* the turn of storageDriverAutostart for pool object p gets to refreshPool
AutostartRefreshes(p, w) ==
    storageDriverAutostartTurn(p, w) \in {"refreshPool", "active"}

RefreshOnlyWithoutBuild ==
    [][/\ (res'.op = "storagePoolRefresh" /\ res'.calls # <<>>) =>
              \A s \in Live : pools[s].uuid = res'.pool => ~HasBuild(pools[s])
       /\ \A w \in AutostartWorlds, f \in Discoveries :
              (storageStateReload(w, f) \/ storageStateAutoStart(w, f)) =>
                  \A s \in Live :
                      AutostartRefreshes(pools[s], w[s]) => ~HasBuild(pools[s])
      ]_vars

(***************************************************************************)
(* C35: when stopPool of the backend was called on a pool because its      *)
(* refreshPool had failed, the pool is inactive, or gone from the store,   *)
(* when the operation returns; this holds for a start, a refresh, and the  *)
(* pass of autostart and state reload over a pool that is active already.  *)
(***************************************************************************)
RolledBack(calls) ==
    \E i \in 1..(Len(calls) - 1) :
        calls[i] = "refreshPool" /\ calls[i + 1] = "stopPool"

\* the turn of storageDriverAutostart for pool object p stops the backend
AutostartStops(p, w) ==
    /\ storageDriverAutostartTurn(p, w) = "refreshPool"
    /\ Has(p.type, "stopPool")

StoppedPoolInactive ==
    [][/\ RolledBack(res'.calls) =>
              \A s \in Slots :
                  (pools[s] # NoPool /\ pools[s].uuid = res'.pool
                      /\ pools'[s] # NoPool) => ~pools'[s].active
       /\ \A w \in AutostartWorlds, f \in Discoveries :
              (storageStateReload(w, f) \/ storageStateAutoStart(w, f)) =>
                  \A s \in Live :
                      (AutostartStops(pools[s], w[s]) /\ pools'[s] # NoPool)
                          => ~pools'[s].active
      ]_vars

(***************************************************************************)
(* C36: from the unlock before a build to the relock after it, the volume  *)
(* that is being built stays in the volume list of its pool, the volume a  *)
(* copy is made from stays in the list of its pool, and these pools stay   *)
(* in the store: nothing removes or frees what the builder goes on to use. *)
(***************************************************************************)
SourcePool(j) == IF j.origpool # 0 THEN j.origpool ELSE j.pool

BuildObjectsKept ==
    \A j \in jobs :
        /\ pools[j.pool] # NoPool
        /\ VolIndexOf(pools, j.pool, j.vol) # 0
        /\ pools[j.pool].volumes[VolIndexOf(pools, j.pool, j.vol)].building
        /\ j.op = "storageVolCreateXMLFrom" =>
               /\ pools[SourcePool(j)] # NoPool
               /\ VolIndexOf(pools, SourcePool(j), j.origvol) # 0
               /\ pools[SourcePool(j)].volumes[
                      VolIndexOf(pools, SourcePool(j), j.origvol)].in_use > 0

(***************************************************************************)
(* C37: every operation of the driver returns with no lock held: on every  *)
(* way out each lock the thread took has been released exactly once, and   *)
(* no thread unlocks a lock it does not hold or a pool that has been       *)
(* removed from the store.                                                 *)
(***************************************************************************)
\* the locks thread t holds after the step it is about to take
HeldAfter(t) ==
    LET st == NextStep(t)
    IN CASE st.k = "storageDriverLock" -> Append(thr[t].held, 0)
         [] st.k = "virStoragePoolObjLock" -> Append(thr[t].held, st.s)
         [] st.k = "storageDriverUnlock" -> Without(thr[t].held, 0)
         [] st.k \in {"virStoragePoolObjUnlock", "remove"} ->
                Without(thr[t].held, st.s)
         [] OTHER -> thr[t].held

ReturnsUnlocked ==
    [][\A t \in Threads : (Running(t) /\ thr'[t] # thr[t]) =>
           /\ ~Running(t)' => HeldAfter(t) = <<>>
           /\ NextStep(t).k = "storageDriverUnlock" => driverLock = t
           /\ NextStep(t).k = "virStoragePoolObjUnlock" =>
                  /\ objLock[NextStep(t).s] = t
                  /\ pools[NextStep(t).s] # NoPool
      ]_vars

(***************************************************************************)
(* C38: every pool without a config file that can be found in the store is *)
(* active: a transient pool that does not start, is destroyed, or whose    *)
(* refresh fails is removed in the step that would leave it inactive.      *)
(***************************************************************************)
TransientPoolsActive ==
    \A s \in Live : ~pools[s].persistent => pools[s].active

\* the refresh of a transient pool has failed and the pool is gone, while
\* another transient pool is up
TransientPoolsActiveWitness ==
    /\ res.op = "storagePoolRefresh"
    /\ res.err = "BACKEND"
    /\ virStoragePoolObjFindByUUID(res.pool) = 0
    /\ \E s \in Live : ~pools[s].persistent /\ pools[s].active

(***************************************************************************)
(* C39: a volume is created and later deleted, with any number of          *)
(* successful resizes of it in between and no other change to the pool:    *)
(* the allocation and the available space of the pool are then what they   *)
(* were before the creation.                                               *)
(***************************************************************************)
PoolBefore == StartedPool(LockPoolDef(1), 1)

RoundTripRestores ==
    (pools[1] # NoPool /\ jobs = {} /\ pools[1].volumes = PoolBefore.volumes) =>
        /\ pools[1].allocation = PoolBefore.allocation
        /\ pools[1].available = PoolBefore.available

(***************************************************************************)
(* C40: virStorageFileGetMetadata terminates on every graph of backing     *)
(* references over finitely many images, cycles included: every call of    *)
(* the recursion that gets past the look-up of its identity has entered a  *)
(* new identity among those seen, so the recursion is never deeper than    *)
(* the number of identities plus one.                                      *)
(***************************************************************************)
DepthBounded ==
    chain.pc = "walking" =>
        /\ chain.cycle \subseteq Images
        /\ Len(chain.stack) <= Cardinality(chain.cycle) + 1
        /\ Len(chain.stack) <= MaxImages + 1

\* a call that goes on to recurse has entered an identity not seen before
NewIdentityPerCall ==
    [][(chain.pc = "walking" /\ chain'.pc = "walking"
            /\ Len(chain'.stack) > Len(chain.stack)) =>
           /\ Top(chain).img \notin chain.cycle
           /\ chain'.cycle = chain.cycle \cup {Top(chain).img}]_vars

WalkTerminates ==
    /\ []DepthBounded
    /\ NewIdentityPerCall
    /\ (chain.pc = "walking") ~> (chain.pc = "done")

\* every image has been seen and the call on the one that closes the cycle
\* has come back with -1
WalkTerminatesWitness ==
    /\ chain.pc = "walking"
    /\ Cardinality(chain.cycle) = MaxImages
    /\ Len(chain.stack) = MaxImages + 1
    /\ Top(chain).stage = "ret"
    /\ Top(chain).ret = -1
    /\ chain.err = "SELF_REFERENTIAL"

====
